---- MODULE Spec2Model ----
(***************************************************************************)
(* Model of the daily-report pipeline of core/processing.py:               *)
(* a workbook of daily sheets is normalised sheet by sheet                 *)
(* (_clean_week_sheets_from_bytes), assembled into the daily table, rolled *)
(* up per action_key (_rollup), diffed into transition events              *)
(* (_transitions) and projected into the eight output tables               *)
(* (build_week_tables_from_excel_bytes).                                   *)
(*                                                                         *)
(* Text is modelled as a sequence of characters, one TLA+ string per       *)
(* character.  Characters outside ASCII are written as ASCII tokens:       *)
(*   "e'"  is e-acute,  "E'" is E-acute,  "deg" is the degree sign,        *)
(*   "LF"  is a line feed.                                                 *)
(***************************************************************************)
EXTENDS Integers, Sequences, FiniteSets, TLC

(***************************************************************************)
(* Bounds of the model.                                                    *)
(***************************************************************************)
MaxSheets == 2
MaxRows == 2
MaxSheetRows == 3
MaxDays == 3
MaxCols == 2
MaxFieldLen == 2

(***************************************************************************)
(* Characters and strings.                                                 *)
(***************************************************************************)
LowerLetters == <<"a", "b", "c", "d", "e", "f", "g", "h", "i", "j", "k", "l", "m",
                  "n", "o", "p", "q", "r", "s", "t", "u", "v", "w", "x", "y", "z", "e'">>
UpperLetters == <<"A", "B", "C", "D", "E", "F", "G", "H", "I", "J", "K", "L", "M",
                  "N", "O", "P", "Q", "R", "S", "T", "U", "V", "W", "X", "Y", "Z", "E'">>

ToLower == [c \in {UpperLetters[k] : k \in 1..Len(UpperLetters)} |->
               LowerLetters[CHOOSE k \in 1..Len(UpperLetters) : UpperLetters[k] = c]]
ToUpper == [c \in {LowerLetters[k] : k \in 1..Len(LowerLetters)} |->
               UpperLetters[CHOOSE k \in 1..Len(LowerLetters) : LowerLetters[k] = c]]

\* str.lower() on one character
LowerCh(c) == IF c \in DOMAIN ToLower THEN ToLower[c] ELSE c

\* str.upper() on one character
UpperCh(c) == IF c \in DOMAIN ToUpper THEN ToUpper[c] ELSE c

Lower(s) == [k \in 1..Len(s) |-> LowerCh(s[k])]
Upper(s) == [k \in 1..Len(s) |-> UpperCh(s[k])]

\* the character with its accent left in place
Unaccent_kept(c) == c

\* unicodedata.normalize("NFKD", c) with the combining marks removed
Unaccent(c) == CASE c = "e'" -> "e" [] c = "E'" -> "E" [] OTHER -> c

IsSpace(c) == c \in {" ", "LF"}

Positions(s) == [k \in 1..Len(s) |-> k]

\* str.strip(): the text between the first and the last character that is
\* not white space
Strip(s) ==
    LET inner == {k \in 1..Len(s) : ~IsSpace(s[k])}
    IN  IF inner = {} THEN <<>>
        ELSE SubSeq(s, CHOOSE k \in inner : \A j \in inner : k <= j,
                       CHOOSE k \in inner : \A j \in inner : j <= k)

\* " ".join(s.split()): the words of s, one space between two words.  A
\* white-space character is kept (as one space) exactly when it follows a
\* word character and some word character comes after it.
JoinSplit(s) ==
    LET keep == SelectSeq(Positions(s),
                          LAMBDA k : \/ ~IsSpace(s[k])
                                     \/ /\ k > 1
                                        /\ ~IsSpace(s[k - 1])
                                        /\ \E j \in (k + 1)..Len(s) : ~IsSpace(s[j]))
    IN  [m \in 1..Len(keep) |-> IF IsSpace(s[keep[m]]) THEN " " ELSE s[keep[m]]]

strip_accents_spaces(s) ==
    LET joined == JoinSplit(s)
    IN  [k \in 1..Len(joined) |-> Unaccent(joined[k])]

\* s.startswith(p)
StartsWith(s, p) == Len(s) >= Len(p) /\ \A j \in 1..Len(p) : s[j] = p[j]

\* p in s
Contains(s, p) ==
    \E k \in 1..(Len(s) - Len(p) + 1) : \A j \in 1..Len(p) : s[k + j - 1] = p[j]

(***************************************************************************)
(* Cells of a raw sheet: text, a boolean, or an empty cell (NaN).          *)
(* str_of is Python's str() of the cell value.                             *)
(***************************************************************************)
NanStr == <<"n", "a", "n">>
TrueStr == <<"T", "r", "u", "e">>
FalseStr == <<"F", "a", "l", "s", "e">>

NaN == [k |-> "nan", s |-> NanStr]
Txt(s) == [k |-> "str", s |-> s]
BoolCell(b) == [k |-> "bool", s |-> IF b THEN TrueStr ELSE FalseStr]

notna(cell) == cell.k # "nan"
str_of(cell) == cell.s

\* a text column holding NaN where the sheet has no such column
NA == <<"<NA>">>

(***************************************************************************)
(* Canonical column names.                                                 *)
(***************************************************************************)
champ_zone == <<"c", "h", "a", "m", "p", "_", "z", "o", "n", "e">>
plateforme_sous_zone == <<"p", "l", "a", "t", "e", "f", "o", "r", "m", "e", "_",
                          "s", "o", "u", "s", "_", "z", "o", "n", "e">>
num_puits == <<"n", "u", "m", "_", "p", "u", "i", "t", "s">>
tag_equipement == <<"t", "a", "g", "_", "e", "q", "u", "i", "p", "e", "m", "e", "n", "t">>
sous_equipement == <<"s", "o", "u", "s", "_", "e", "q", "u", "i", "p", "e", "m", "e", "n", "t">>
metier == <<"m", "e", "t", "i", "e", "r">>
travaux_commentaires == <<"t", "r", "a", "v", "a", "u", "x", "_", "c", "o", "m", "m",
                          "e", "n", "t", "a", "i", "r", "e", "s">>
termine == <<"t", "e", "r", "m", "i", "n", "e">>
en_cours == <<"e", "n", "_", "c", "o", "u", "r", "s">>
reporte == <<"r", "e", "p", "o", "r", "t", "e">>
indisponible == <<"i", "n", "d", "i", "s", "p", "o", "n", "i", "b", "l", "e">>

\* norm_cols on one header cell
norm_col(c) ==
    LET base == Strip(strip_accents_spaces(c))
        low == Lower(base)
    IN  IF StartsWith(low, <<"c", "h", "a", "m", "p", " ", "/", " ", "z", "o", "n", "e">>)
           \/ low = <<"c", "h", "a", "m", "p", " ", "z", "o", "n", "e">>
        THEN champ_zone
        ELSE IF Contains(low, <<"p", "l", "a", "t", "e", "f", "o", "r", "m", "e">>)
                \/ Contains(low, <<"p", "l", "a", "t", "e", "r", "f", "o", "r", "m", "e">>)
                \/ Contains(low, <<"p", "l", "a", "t", "e", "f", "o", "r", "m", "e", "/",
                                   "s", "o", "u", "s", "-", "z", "o", "n", "e">>)
        THEN plateforme_sous_zone
        ELSE IF StartsWith(low, <<"n", "deg", " ", "p", "u", "i", "t", "s">>)
                \/ Contains(low, <<"n", " ", "p", "u", "i", "t", "s">>)
                \/ StartsWith(low, <<"n", "deg", "p", "u", "i", "t", "s">>)
        THEN num_puits
        ELSE IF Contains(low, <<"t", "a", "g", " ", "e", "q", "u", "i", "p", "e", "m", "e", "n", "t">>)
                \/ low = <<"t", "a", "g">>
                \/ Contains(low, <<"t", "a", "g", " ", "e'", "q", "u", "i", "p", "e", "m", "e", "n", "t">>)
        THEN tag_equipement
        ELSE IF Contains(low, <<"s", "o", "u", "s", "-", "e", "q", "u", "i", "p", "e", "m", "e", "n", "t">>)
                \/ Contains(low, <<"s", "o", "u", "s", " ", "e", "q", "u", "i", "p", "e", "m", "e", "n", "t">>)
                \/ Contains(low, <<"s", "o", "u", "s", "-", " ", "e", "q", "u", "i", "p", "e", "m", "e", "n", "t">>)
        THEN sous_equipement
        ELSE IF low = indisponible
        THEN indisponible
        ELSE IF low \in {<<"m", "e", "t", "i", "e", "r">>, <<"m", "e'", "t", "i", "e", "r">>}
        THEN metier
        ELSE IF Contains(low, <<"t", "r", "a", "v", "a", "i", "l", " ", "e", "f", "f", "e", "c", "t", "u", "e">>)
                /\ Contains(low, <<"c", "o", "m", "m", "e", "n", "t", "a", "i", "r", "e", "s">>)
        THEN travaux_commentaires
        ELSE IF StartsWith(low, <<"t", "e", "r", "m", "i", "n", "e">>)
                \/ Contains(low, <<"t", "e", "r", "m", "i", "n", "e'">>)
        THEN termine
        ELSE IF StartsWith(low, <<"e", "n", " ", "c", "o", "u", "r", "s">>)
        THEN en_cours
        ELSE IF StartsWith(low, <<"r", "e", "p", "o", "r", "t">>)
                \/ StartsWith(low, <<" ", "r", "e", "p", "o", "r", "t", "e">>)
        THEN reporte
        ELSE low

norm_cols(cols) == [k \in 1..Len(cols) |-> norm_col(cols[k])]

\* to_bool on one cell: a boolean passes through; any other value is true
\* exactly when its stripped, lower-cased text is one of the truthy tokens
Truthy == {<<"1">>, <<"t", "r", "u", "e">>, <<"v", "r", "a", "i">>, <<"o", "u", "i">>,
           <<"y", "e", "s">>, <<"y">>, <<"t">>, <<"x">>}

to_bool(cell) ==
    IF cell.k = "bool" THEN cell.s = TrueStr
    ELSE Lower(Strip(str_of(cell))) \in Truthy

\* _strip_col on one cell
_strip_col(cell) == Upper(strip_accents_spaces(str_of(cell)))

RECURSIVE JoinWith(_, _)
JoinWith(parts, sep) ==
    IF parts = <<>> THEN <<>>
    ELSE IF Len(parts) = 1 THEN parts[1]
    ELSE parts[1] \o sep \o JoinWith(Tail(parts), sep)

(***************************************************************************)
(* A raw sheet, as xls.parse(sheet_name, header=None) returns it:          *)
(*   short  - the grid has fewer than five rows (no header row, row 4)     *)
(*   date   - the cell at (row 2, column 8): a date, empty, or other text  *)
(*   header - the cells of row 4                                           *)
(*   rows   - the rows from row 5 on, one cell per header cell             *)
(***************************************************************************)
NaT == 0

DateCell(d) == [k |-> "date", d |-> d]
NoDateCell == [k |-> "nan", d |-> NaT]
BadDateCell == [k |-> "str", d |-> NaT]

_get_date_from_raw(df_raw) ==
    IF df_raw.date.k = "date" THEN df_raw.date.d ELSE NaT

Has(cols, c) == \E j \in 1..Len(cols) : cols[j] = c
ColPos(cols, c) == CHOOSE j \in 1..Len(cols) : cols[j] = c
CellOf(row, cols, c) == row[ColPos(cols, c)]

\* the other columns of the tables
action_key == <<"a", "c", "t", "i", "o", "n", "_", "k", "e", "y">>
date_rapport == <<"d", "a", "t", "e", "_", "r", "a", "p", "p", "o", "r", "t">>
feuille == <<"f", "e", "u", "i", "l", "l", "e">>
change_desc == <<"c", "h", "a", "n", "g", "e", "_", "d", "e", "s", "c">>

DescCols == <<champ_zone, plateforme_sous_zone, num_puits, tag_equipement,
              sous_equipement, metier, travaux_commentaires>>

\* _get_prevision_index on the rows left after the null-zone filter:
\* the 0-based position of the first sentinel row, or False
_get_prevision_index(rows, cols) ==
    IF ~Has(cols, champ_zone) THEN [isFalse |-> TRUE, idx |-> 0]
    ELSE LET hits == {j \in 1..Len(rows) :
                         _strip_col(CellOf(rows[j], cols, champ_zone))
                             = <<"P", "R", "E", "V", "I", "S", "I", "O", "N">>}
         IN  IF hits = {} THEN [isFalse |-> TRUE, idx |-> 0]
             ELSE [isFalse |-> FALSE,
                   idx |-> (CHOOSE j \in hits : \A h \in hits : j <= h) - 1]

\* the cut taken only for a truthy index ("if idx_prev:"), so that a sentinel
\* in the first row is not seen
CutAtPrevision_truthy(rows, idx_prev) ==
    IF (~idx_prev.isFalse) /\ idx_prev.idx # 0 THEN SubSeq(rows, 1, idx_prev.idx) ELSE rows

\* lines 158-159: cut the frame at the sentinel
CutAtPrevision(rows, idx_prev) ==
    IF ~idx_prev.isFalse THEN SubSeq(rows, 1, idx_prev.idx) ELSE rows

\* lines 161-165: a flag column of the cleaned frame
FlagOf(row, cols, c) == IF Has(cols, c) THEN to_bool(CellOf(row, cols, c)) ELSE FALSE

\* lines 170-184: a descriptive column of the cleaned frame
TextOf(row, cols, c) ==
    IF Has(cols, c)
    THEN LET x == str_of(CellOf(row, cols, c))
         IN  strip_accents_spaces(IF x = NanStr THEN <<>> ELSE x)
    ELSE NA

\* row.get(c, "") in _action_key
RowGet(row, cols, c) == IF Has(cols, c) THEN TextOf(row, cols, c) ELSE <<>>

\* the payload that _action_key hashes; the key is sha1(payload), and the
\* model takes the payload itself as the key
\* a key that also hashes the row's termine flag
_action_key_flagged(row, cols) ==
    JoinWith([k \in 1..(Len(DescCols) + 1) |->
                 IF k <= Len(DescCols)
                 THEN Lower(strip_accents_spaces(RowGet(row, cols, DescCols[k])))
                 ELSE IF FlagOf(row, cols, termine) THEN <<"1">> ELSE <<"0">>],
             <<"|", "|">>)

_action_key(row, cols) ==
    JoinWith([k \in 1..Len(DescCols) |->
                 Lower(strip_accents_spaces(RowGet(row, cols, DescCols[k])))],
             <<"|", "|">>)

\* lines 188-199: some descriptive column present in the frame is not blank
non_empty(row, cols) ==
    \E k \in 1..Len(DescCols) :
        Has(cols, DescCols[k]) /\ Strip(TextOf(row, cols, DescCols[k])) # <<>>

\* one row of the cleaned frame of a sheet
CleanRow(row, cols, dt_report, sheet_name) ==
    [action_key |-> _action_key(row, cols),
     date_rapport |-> dt_report,
     champ_zone |-> TextOf(row, cols, champ_zone),
     plateforme_sous_zone |-> TextOf(row, cols, plateforme_sous_zone),
     num_puits |-> TextOf(row, cols, num_puits),
     tag_equipement |-> TextOf(row, cols, tag_equipement),
     sous_equipement |-> TextOf(row, cols, sous_equipement),
     metier |-> TextOf(row, cols, metier),
     travaux_commentaires |-> TextOf(row, cols, travaux_commentaires),
     termine |-> FlagOf(row, cols, termine),
     en_cours |-> FlagOf(row, cols, en_cours),
     reporte |-> FlagOf(row, cols, reporte),
     indisponible |-> FlagOf(row, cols, indisponible),
     feuille |-> sheet_name]

\* lines 155-199 for a sheet whose renamed columns cols include champ_zone
CleanFrame(df_raw, cols, sheet_name) ==
    LET kept == SelectSeq(df_raw.rows, LAMBDA r : notna(CellOf(r, cols, champ_zone)))
        cut == CutAtPrevision(kept, _get_prevision_index(kept, cols))
        usable == SelectSeq(cut, LAMBDA r : non_empty(r, cols))
    IN  [k \in 1..Len(usable) |->
            CleanRow(usable[k], cols, _get_date_from_raw(df_raw), sheet_name)]

(***************************************************************************)
(* Tables are sequences of rows (records).  A table with a RangeIndex has   *)
(* the row label k - 1 at position k; the tables derived from daily_sorted *)
(* keep its row labels in the field "index".                               *)
(***************************************************************************)
RECURSIVE Concat(_)
\* the frames put together last sheet first
Concat_reversed(frames) ==
    IF frames = <<>> THEN <<>> ELSE Concat(Tail(frames)) \o Head(frames)

Concat(frames) == IF frames = <<>> THEN <<>> ELSE Head(frames) \o Concat(Tail(frames))

\* a row of the daily table with its row label
Labelled(r, label) ==
    [index |-> label,
     action_key |-> r.action_key,
     date_rapport |-> r.date_rapport,
     champ_zone |-> r.champ_zone,
     plateforme_sous_zone |-> r.plateforme_sous_zone,
     num_puits |-> r.num_puits,
     tag_equipement |-> r.tag_equipement,
     sous_equipement |-> r.sous_equipement,
     metier |-> r.metier,
     travaux_commentaires |-> r.travaux_commentaires,
     termine |-> r.termine,
     en_cours |-> r.en_cours,
     reporte |-> r.reporte,
     indisponible |-> r.indisponible,
     feuille |-> r.feuille]

\* reset_index(drop=True) / ignore_index=True: labels 0..n-1 in row order
ResetIndex(rows) == [k \in 1..Len(rows) |-> Labelled(rows[k], k - 1)]

Reverse(rows) == [k \in 1..Len(rows) |-> rows[Len(rows) + 1 - k]]

MaxDate(rows) ==
    IF rows = <<>> THEN NaT
    ELSE LET ds == {rows[k].date_rapport : k \in 1..Len(rows)}
         IN  CHOOSE d \in ds : \A e \in ds : e <= d

RECURSIVE ByDay(_, _, _)
ByDay(rows, d, hi) ==
    IF d > hi THEN <<>>
    ELSE SelectSeq(rows, LAMBDA r : r.date_rapport = d) \o ByDay(rows, d + 1, hi)

\* a stable sort by date_rapport, rows without a date last (na_position="last")
StableSortByDate(rows) ==
    ByDay(rows, NaT + 1, MaxDate(rows)) \o SelectSeq(rows, LAMBDA r : r.date_rapport = NaT)

\* sort_values("date_rapport") on one column uses numpy's quicksort, which is
\* not a stable sort: the order it leaves among rows of equal date depends on
\* the numpy build.  ties = "kept": equal dates keep their order (insertion
\* sort of short arrays); ties = "reversed": equal dates come out reversed
\* (vectorised sorting networks).  Rows without a date are appended in their
\* original order in both cases.
SortByDate(rows, ties) ==
    LET dated == SelectSeq(rows, LAMBDA r : r.date_rapport # NaT)
        undated == SelectSeq(rows, LAMBDA r : r.date_rapport = NaT)
        src == IF ties = "reversed" THEN Reverse(dated) ELSE dated
    IN  ByDay(src, NaT + 1, MaxDate(rows)) \o undated

\* the distinct action keys of a table, in order of first appearance.
\* (pandas orders groups by the sha1 digests; the digest order of two payloads
\* is not modelled, and no table depends on it beyond the order of its rows.)
RECURSIVE KeysOf(_)
KeysOf(rows) ==
    IF rows = <<>> THEN <<>>
    ELSE LET k == Head(rows).action_key
         IN  <<k>> \o KeysOf(SelectSeq(Tail(rows), LAMBDA r : r.action_key # k))

Group(rows, key) == SelectSeq(rows, LAMBDA r : r.action_key = key)

\* line 245: daily.sort_values(["action_key", "date_rapport"]).reset_index(drop=True)
\* (a sort on two columns is a stable lexsort)
SortKeyDate(rows) ==
    LET keys == KeysOf(rows)
    IN  Concat([k \in 1..Len(keys) |-> StableSortByDate(Group(rows, keys[k]))])

daily_sorted_of(daily) == ResetIndex(SortKeyDate(daily))

(***************************************************************************)
(* Nullable booleans of pandas ("boolean" dtype).                          *)
(***************************************************************************)
NB(b) == [na |-> FALSE, v |-> b]
fillna_False(x) == IF x.na THEN NB(FALSE) ELSE x

\* a fill that carries the last true value forward over later false values
ffill_sticky(col) ==
    [k \in 1..Len(col) |->
        IF col[k].na THEN col[k] ELSE NB(\E j \in 1..k : ~col[j].na /\ col[j].v)]

\* Series.ffill(): a missing value takes the last value observed before it
ffill(col) ==
    [k \in 1..Len(col) |->
        IF ~col[k].na THEN col[k]
        ELSE IF \E j \in 1..(k - 1) : ~col[j].na
             THEN col[CHOOSE j \in 1..(k - 1) :
                         ~col[j].na /\ \A h \in (j + 1)..(k - 1) : col[h].na]
             ELSE col[k]]

\* the boolean column itself, nothing accumulated
cummax_forgetful(col) == col

\* Series.cummax() on booleans
cummax(col) == [k \in 1..Len(col) |-> \E j \in 1..k : col[j]]

\* the forward-filled flag, whatever termine_final is
where_not_ignored(termine_final, ff) == ff

\* np.where(termine_final, False, ff)
where_not(termine_final, ff) == IF termine_final THEN FALSE ELSE ff

\* _rollup on the rows of one action_key
_rollup(group, ties) ==
    LET g == SortByDate(group, ties)
        n == Len(g)
        t == [k \in 1..n |-> fillna_False(NB(g[k].termine)).v]
        e == [k \in 1..n |-> fillna_False(NB(g[k].en_cours))]
        r == [k \in 1..n |-> fillna_False(NB(g[k].reporte))]
        en_cours_ff == [k \in 1..n |-> fillna_False(ffill(e)[k]).v]
        reporte_ff == [k \in 1..n |-> fillna_False(ffill(r)[k]).v]
        termine_seen == cummax(t)
    IN  [k \in 1..n |->
            [index |-> g[k].index,
             action_key |-> g[k].action_key,
             date_rapport |-> g[k].date_rapport,
             champ_zone |-> g[k].champ_zone,
             plateforme_sous_zone |-> g[k].plateforme_sous_zone,
             num_puits |-> g[k].num_puits,
             tag_equipement |-> g[k].tag_equipement,
             sous_equipement |-> g[k].sous_equipement,
             metier |-> g[k].metier,
             travaux_commentaires |-> g[k].travaux_commentaires,
             termine |-> t[k],
             en_cours |-> e[k].v,
             reporte |-> r[k].v,
             indisponible |-> g[k].indisponible,
             feuille |-> g[k].feuille,
             en_cours_ff |-> en_cours_ff[k],
             reporte_ff |-> reporte_ff[k],
             termine_seen |-> termine_seen[k],
             termine_final |-> termine_seen[k],
             en_cours_final |-> where_not(termine_seen[k], en_cours_ff[k]),
             reporte_final |-> where_not(termine_seen[k], reporte_ff[k])]]

\* lines 262-265: groupby("action_key").apply(_rollup)
rolled_of(daily_sorted, ties) ==
    LET keys == KeysOf(daily_sorted)
    IN  Concat([k \in 1..Len(keys) |-> _rollup(Group(daily_sorted, keys[k]), ties)])

(***************************************************************************)
(* Transition events.                                                      *)
(***************************************************************************)
\* f"{bool(x)}"
BoolStr(b) == IF b THEN TrueStr ELSE FalseStr

\* the message with the two values exchanged
ChangeMsg_swapped(field, old, new) ==
    field \o <<":", " ">> \o BoolStr(new) \o <<" ", "-", ">", " ">> \o BoolStr(old)

\* f"{field}: {old} -> {new}"
ChangeMsg(field, old, new) ==
    field \o <<":", " ">> \o BoolStr(old) \o <<" ", "-", ">", " ">> \o BoolStr(new)

\* the shift with the first row compared against itself (shift(1).bfill())
shift1_bfill(col, k) == IF k = 1 THEN col[1] ELSE col[k - 1]

\* Series.shift(1).fillna(False) at position k
shift1(col, k) == IF k = 1 THEN FALSE ELSE col[k - 1]

\* _desc: the messages of the flags that changed, joined by "; "
_desc(tc, ec, rc, tp, ep, rp, t, e, r) ==
    JoinWith((IF tc THEN <<ChangeMsg(termine, tp, t)>> ELSE <<>>)
             \o (IF ec THEN <<ChangeMsg(en_cours, ep, e)>> ELSE <<>>)
             \o (IF rc THEN <<ChangeMsg(reporte, rp, r)>> ELSE <<>>),
             <<";", " ">>)

\* _transitions on the rolled rows of one action_key
_transitions(sub, ties) ==
    LET g == SortByDate(sub, ties)
        n == Len(g)
        t == [k \in 1..n |-> g[k].termine_final]
        e == [k \in 1..n |-> g[k].en_cours_final]
        r == [k \in 1..n |-> g[k].reporte_final]
        tc(k) == t[k] # shift1(t, k)
        ec(k) == e[k] # shift1(e, k)
        rc(k) == r[k] # shift1(r, k)
        changed == SelectSeq([k \in 1..n |-> k], LAMBDA k : tc(k) \/ ec(k) \/ rc(k))
    IN  [c \in 1..Len(changed) |->
            LET k == changed[c]
            IN  [action_key |-> g[k].action_key,
                 date_rapport |-> g[k].date_rapport,
                 termine |-> t[k],
                 en_cours |-> e[k],
                 reporte |-> r[k],
                 change_desc |-> _desc(tc(k), ec(k), rc(k),
                                       shift1(t, k), shift1(e, k), shift1(r, k),
                                       t[k], e[k], r[k])]]

\* lines 305-326: groupby("action_key").apply(_transitions).reset_index(drop=True)
transitions_of(rolled, ties) ==
    LET keys == KeysOf(rolled)
    IN  Concat([k \in 1..Len(keys) |-> _transitions(Group(rolled, keys[k]), ties)])

(***************************************************************************)
(* Views.                                                                  *)
(***************************************************************************)
\* the columns kept in actions_latest, the final flags renamed
LatestRow(r) ==
    [index |-> r.index,
     action_key |-> r.action_key,
     date_rapport |-> r.date_rapport,
     champ_zone |-> r.champ_zone,
     plateforme_sous_zone |-> r.plateforme_sous_zone,
     num_puits |-> r.num_puits,
     tag_equipement |-> r.tag_equipement,
     sous_equipement |-> r.sous_equipement,
     metier |-> r.metier,
     travaux_commentaires |-> r.travaux_commentaires,
     termine |-> r.termine_final,
     en_cours |-> r.en_cours_final,
     reporte |-> r.reporte_final]

\* lines 328-333: the last row of each key after
\* rolled.sort_values(["action_key", "date_rapport"])
last_rows(rolled) ==
    LET keys == KeysOf(rolled)
    IN  [k \in 1..Len(keys) |->
            LET g == StableSortByDate(Group(rolled, keys[k])) IN g[Len(g)]]

\* lines 334-350
latest_of(rolled) ==
    LET last == last_rows(rolled)
    IN  [k \in 1..Len(last) |-> LatestRow(last[k])]

\* lines 352-355
\* the rows of the first day on which each action is unavailable only
downtime_of_first(daily) ==
    SelectSeq(daily, LAMBDA r :
        /\ r.indisponible
        /\ \A k \in 1..Len(daily) :
              (daily[k].indisponible /\ daily[k].action_key = r.action_key)
                  => (r.date_rapport = NaT \/ daily[k].date_rapport = NaT
                      \/ r.date_rapport <= daily[k].date_rapport))

\* line 355
downtime_of(daily) == SelectSeq(daily, LAMBDA r : r.indisponible)

ended_of(latest) == SelectSeq(latest, LAMBDA r : r.termine)
running_of(latest) == SelectSeq(latest, LAMBDA r : (~r.termine) /\ r.en_cours)
postponed_of(latest) == SelectSeq(latest, LAMBDA r : (~r.termine) /\ r.reporte)

\* lines 357-379: the rolled rows, raw flags dropped, final flags renamed
ConsistentRow(r) ==
    [index |-> r.index,
     action_key |-> r.action_key,
     date_rapport |-> r.date_rapport,
     champ_zone |-> r.champ_zone,
     plateforme_sous_zone |-> r.plateforme_sous_zone,
     num_puits |-> r.num_puits,
     tag_equipement |-> r.tag_equipement,
     sous_equipement |-> r.sous_equipement,
     metier |-> r.metier,
     travaux_commentaires |-> r.travaux_commentaires,
     termine |-> r.termine_final,
     en_cours |-> r.en_cours_final,
     reporte |-> r.reporte_final,
     indisponible |-> r.indisponible,
     feuille |-> r.feuille]

consistent_of(rolled) == [k \in 1..Len(rolled) |-> ConsistentRow(rolled[k])]

\* lines 221-240: the columns of actions_daily and of equipment_downtime
base_cols ==
    <<action_key, date_rapport, champ_zone, plateforme_sous_zone, num_puits,
      tag_equipement, sous_equipement, metier, travaux_commentaires,
      termine, en_cours, reporte, indisponible, feuille>>

\* lines 362-379: the columns of actions_consistent
consistent_cols == base_cols

\* lines 334-350: the columns of actions_latest and of its three subsets
latest_cols ==
    <<action_key, date_rapport, champ_zone, plateforme_sous_zone, num_puits,
      tag_equipement, sous_equipement, metier, travaux_commentaires,
      termine, en_cours, reporte>>

\* the events as a frame without any column when there is no event
transitions_cols_bare(events) ==
    IF events = <<>> THEN <<>>
    ELSE <<action_key, date_rapport, termine, en_cours, reporte, change_desc>>

\* lines 280-281 and 294-303: the columns of the events of a key, the same
\* whether the key has events or not, kept by the concatenation of line 309
transitions_cols(events) ==
    IF events = <<>>
    THEN <<action_key, date_rapport, termine, en_cours, reporte, change_desc>>
    ELSE <<action_key, date_rapport, termine, en_cours, reporte, change_desc>>

(***************************************************************************)
(* Inputs: headers, rows and sheets that workbooks are made of.            *)
(***************************************************************************)
\* the header row of the repository's test workbook
StdHeader ==
    << <<"C", "h", "a", "m", "p", " ", "/", " ", "Z", "o", "n", "e">>,
       <<"P", "l", "a", "t", "e", "f", "o", "r", "m", "e">>,
       <<"N", "deg", " ", "p", "u", "i", "t", "s">>,
       <<"T", "A", "G", " ", "E", "q", "u", "i", "p", "e", "m", "e", "n", "t">>,
       <<"S", "o", "u", "s", "-", "e", "q", "u", "i", "p", "e", "m", "e", "n", "t">>,
       <<"M", "e", "t", "i", "e", "r">>,
       <<"T", "r", "a", "v", "a", "i", "l", " ", "e", "f", "f", "e", "c", "t", "u", "e", " ",
         "+", " ", "c", "o", "m", "m", "e", "n", "t", "a", "i", "r", "e", "s">>,
       <<"T", "e", "r", "m", "i", "n", "e'">>,
       <<"E", "n", " ", "c", "o", "u", "r", "s">>,
       <<"R", "e", "p", "o", "r", "t", "e'">>,
       <<"I", "n", "d", "i", "s", "p", "o", "n", "i", "b", "l", "e">> >>

\* the same header with an identity column that no synonym rule recognises
NoZoneHeader == [StdHeader EXCEPT ![1] = <<"Z", "o", "n", "e">>]

HeaderInputs == {StdHeader, NoZoneHeader}

\* norm_cols(df.columns), tabulated over the headers of the inputs
NormColsOf == [h \in HeaderInputs |-> norm_cols(h)]

\* a data row under StdHeader
RawRow(zone, work, t, e, r, ind) ==
    <<zone, Txt(<<"P", "F">>), Txt(<<"1">>), Txt(<<"T", "A", "G", "1">>),
      Txt(<<"S", "1">>), Txt(<<"P", "r", "o", "d">>), work,
      BoolCell(t), BoolCell(e), BoolCell(r), BoolCell(ind)>>

Z1 == Txt(<<"Z", "1">>)
Work1 == Txt(<<"A", "c", "t", " ", "1">>)
Work2 == Txt(<<"A", "c", "t", " ", "2">>)

\* all sequences over S of length from lo to hi
SeqsOf(S, lo, hi) == UNION {[1..m -> S] : m \in lo..hi}

Days == {1, 2}

\* rows of one action under the combinations of its status flags, and a row
\* of a second action
RollupRows ==
    {RawRow(Z1, Work1, f[1], f[2], f[3], FALSE) :
        f \in {<<FALSE, FALSE, FALSE>>, <<TRUE, FALSE, FALSE>>, <<FALSE, TRUE, FALSE>>,
               <<FALSE, FALSE, TRUE>>, <<FALSE, TRUE, TRUE>>}}
    \cup {RawRow(Z1, Work2, FALSE, TRUE, FALSE, TRUE)}

\* well-formed sheets that list at least one action and at most m
RollupSheets(m) ==
    {[short |-> FALSE, date |-> d, header |-> StdHeader, rows |-> rs] :
        d \in {DateCell(x) : x \in Days} \cup {NoDateCell},
        rs \in SeqsOf(RollupRows, 1, m)}

\* the workbooks of n such sheets that list at most m actions in all
RECURSIVE RollupWorkbooks(_, _)
RollupWorkbooks(n, m) ==
    IF n = 0 THEN {<<>>}
    ELSE UNION {{<<s>> \o w : w \in RollupWorkbooks(n - 1, m - Len(s.rows))} :
                   s \in RollupSheets(m - (n - 1))}

\* identity cells: plain, written differently, the sentinel in two spellings,
\* and the empty cell
ZoneCells ==
    {Z1, Txt(<<"z", "1", " ">>),
     Txt(<<"P", "R", "E", "V", "I", "S", "I", "O", "N">>),
     Txt(<<" ", "P", "r", "e'", "v", "i", "s", "i", "o", "n">>),
     NaN}

\* a row of blanks
BlankRow == <<Txt(<<" ">>), NaN, NaN, NaN, NaN, NaN, NaN, NaN, NaN, NaN, NaN>>

NormRows ==
    {RawRow(z, Work1, FALSE, TRUE, FALSE, FALSE) : z \in ZoneCells} \cup {BlankRow}

\* sheets of any shape: any rows under the standard header, a sheet without
\* identity column, a sheet too short to have a header row
NormSheets ==
    {[short |-> FALSE, date |-> d, header |-> StdHeader, rows |-> rs] :
        d \in {DateCell(1), NoDateCell, BadDateCell},
        rs \in SeqsOf(NormRows, 0, MaxSheetRows)}
    \cup {[short |-> FALSE, date |-> d, header |-> NoZoneHeader, rows |-> rs] :
             d \in {DateCell(1), NoDateCell},
             rs \in SeqsOf({RawRow(Z1, Work1, FALSE, TRUE, FALSE, FALSE)}, 0, 1)}
    \cup {[short |-> TRUE, date |-> d, header |-> <<>>, rows |-> <<>>] :
             d \in {DateCell(1), NoDateCell}}

\* the sheets of the repository's test workbook: the action is in progress
\* on day 1 and done from day 2 on
TestSheet(d) ==
    [short |-> FALSE, date |-> DateCell(d), header |-> StdHeader,
     rows |-> <<RawRow(Z1, Work1, d >= 2, d < 2, FALSE, FALSE)>>]

\* what a daily sheet says of the action: unavailable (in progress or done),
\* available, or nothing (it lists another action)
DowntimeRows ==
    {RawRow(Z1, Work1, FALSE, TRUE, FALSE, TRUE),
     RawRow(Z1, Work1, TRUE, FALSE, FALSE, TRUE),
     RawRow(Z1, Work1, FALSE, TRUE, FALSE, FALSE),
     RawRow(Z1, Work1, TRUE, TRUE, FALSE, FALSE),
     RawRow(Z1, Work2, FALSE, TRUE, FALSE, FALSE)}

\* the sheet of day d with one row
DaySheet(d, row) ==
    [short |-> FALSE, date |-> DateCell(d), header |-> StdHeader, rows |-> <<row>>]

\* header cells: the spellings of the synonym table, in other cases and
\* accents, a header that starts as one column and contains another, and
\* a header of no known column
H_Champ == <<"C", "h", "a", "m", "p", " ", "/", " ", "Z", "o", "n", "e">>
H_CHAMP == <<"C", "H", "A", "M", "P", " ", "/", " ", "Z", "O", "N", "E">>
H_ChampPlateforme == <<"C", "h", "a", "m", "p", " ", "/", " ", "Z", "o", "n", "e", " ", "P", "l", "a", "t", "e", "f", "o", "r", "m", "e">>
H_Plateforme == <<"P", "l", "a", "t", "e", "f", "o", "r", "m", "e">>
H_Puits == <<"N", "deg", " ", "p", "u", "i", "t", "s">>
H_Tag == <<"T", "A", "G", " ", "e'", "q", "u", "i", "p", "e", "m", "e", "n", "t">>
H_Sous == <<"S", "o", "u", "s", " ", "e", "q", "u", "i", "p", "e", "m", "e", "n", "t">>
H_Metier == <<"M", "e'", "t", "i", "e", "r">>
H_Travail == <<"T", "r", "a", "v", "a", "i", "l", " ", "e", "f", "f", "e", "c", "t", "u", "e", " ", "+", " ", "c", "o", "m", "m", "e", "n", "t", "a", "i", "r", "e", "s">>
H_Termine == <<"T", "e", "r", "m", "i", "n", "e'">>
H_Reporte == <<"R", "e", "p", "o", "r", "t", "e'">>
H_Autre == <<"A", "u", "t", "r", "e", " ", "E'">>
H_METIER == <<"M", "E'", "T", "I", "E", "R">>

HeaderPool ==
    {H_Champ, H_CHAMP, H_ChampPlateforme, H_Plateforme, H_Puits,
     H_Tag, H_Sous, H_Metier, H_Travail, H_Termine,
     H_Reporte, H_Autre, H_METIER}

(***************************************************************************)
(* State of one run of build_week_tables_from_excel_bytes.                 *)
(***************************************************************************)
VARIABLES
    wb,            \* the uploaded bytes as a workbook: [valid, sheets]
    start_sheet,   \* 1-based first sheet of the requested range
    end_sheet,     \* 1-based last sheet of the requested range
    sort_ties,     \* what the build's quicksort does with equal dates
    pc,            \* position of the run
    i,             \* loop variable of the sheet loop (0-based)
    final_dfs,     \* cleaned frames collected so far
    dates,         \* report dates collected so far
    daily,         \* the daily table
    rolled,        \* the rolled table
    transitions,   \* the transition events
    tables,        \* the returned dict of tables
    columns,       \* the columns of each returned table
    rerun,         \* the outcome of a second call on the same bytes and range
    header,        \* the header cells given to a call of norm_cols
    mapped,        \* what that call returned
    err,           \* the exception that ended the run, "none" if none
    fs,            \* the scratch directory: [writable, files]
    parts,         \* the descriptive fields of two rows given to _action_key
    payloads,      \* the payloads _action_key hashes for them
    SS,            \* st.session_state of the app
    up,            \* the file held by the uploader widget, None if none
    script_run     \* the last script run: its trigger and the session before it

run_vars == <<wb, start_sheet, end_sheet, sort_ties, pc, i, final_dfs, dates,
              daily, rolled, transitions, tables, columns, rerun, header, mapped, err>>
key_vars == <<parts, payloads>>
app_vars == <<SS, up, script_run>>

vars == <<run_vars, fs, key_vars, app_vars>>

\* Python's None, and a value held where None may be held
None == <<>>
Some(x) == <<x>>
Get(opt) == opt[1]

\* a scratch directory that holds no file and accepts writes
EmptyDir == [writable |-> TRUE, files |-> {}]

\* the path NamedTemporaryFile gives to the first call, and to a second call
tmp_path == "tmp1.xlsx"
tmp_path_again == "tmp2.xlsx"

\* lines 204-208: os.remove(tmp_path)
os_remove(files, path) == files \ {path}

EmptyTables ==
    [actions_daily |-> <<>>, actions_consistent |-> <<>>, actions_latest |-> <<>>,
     ended_actions |-> <<>>, running_actions |-> <<>>, postponed_actions |-> <<>>,
     equipment_downtime |-> <<>>, transitions |-> <<>>]

NoColumns ==
    [actions_daily |-> <<>>, actions_consistent |-> <<>>, actions_latest |-> <<>>,
     ended_actions |-> <<>>, running_actions |-> <<>>, postponed_actions |-> <<>>,
     equipment_downtime |-> <<>>, transitions |-> <<>>]

Raise(e) ==
    /\ pc' = "error"
    /\ err' = e

\* lines 127-137: the bytes are written to a scratch file, the workbook is
\* opened and the range is checked; the finally of lines 204-208 removes the
\* file when the try block is left
OpenWorkbook ==
    /\ pc = "start"
    /\ LET created == fs.files \cup {tmp_path}
           removed == os_remove(created, tmp_path)
       IN  IF ~fs.writable
           THEN /\ Raise("OSError") /\ UNCHANGED i
                /\ fs' = [fs EXCEPT !.files = created]
           ELSE IF ~wb.valid
           THEN /\ Raise("ParseError") /\ UNCHANGED i
                /\ fs' = [fs EXCEPT !.files = removed]
           ELSE LET total_sheets == Len(wb.sheets)
                IN  IF start_sheet < 1 \/ end_sheet > total_sheets
                    THEN /\ Raise("RangeError") /\ UNCHANGED i
                         /\ fs' = [fs EXCEPT !.files = removed]
                    ELSE /\ pc' = "clean" /\ i' = start_sheet - 1 /\ UNCHANGED err
                         /\ fs' = [fs EXCEPT !.files = created]
    /\ UNCHANGED <<wb, start_sheet, end_sheet, sort_ties, final_dfs, dates,
                   daily, rolled, transitions, tables, columns, rerun,
                   header, mapped>>
    /\ UNCHANGED <<key_vars, app_vars>>

\* lines 139-201: one iteration of the sheet loop
ParseSheet ==
    /\ pc = "clean"
    /\ i < end_sheet
    /\ LET sheet_name == i + 1
           df_raw == wb.sheets[i + 1]
           cols == NormColsOf[df_raw.header]
       IN  /\ dates' = Append(dates, _get_date_from_raw(df_raw))
           /\ IF df_raw.short
              THEN /\ Raise("IndexError") /\ UNCHANGED <<i, final_dfs>>
                   /\ fs' = [fs EXCEPT !.files = os_remove(fs.files, tmp_path)]
              ELSE /\ i' = i + 1
                   /\ UNCHANGED <<pc, err, fs>>
                   /\ IF ~Has(cols, champ_zone)
                      THEN UNCHANGED final_dfs
                      ELSE final_dfs' = Append(final_dfs, CleanFrame(df_raw, cols, sheet_name))
    /\ UNCHANGED <<wb, start_sheet, end_sheet, sort_ties, daily, rolled, transitions, tables, columns, rerun,
                   header, mapped>>
    /\ UNCHANGED <<key_vars, app_vars>>

\* lines 203-208, 215-243: the frames are returned, the scratch file is
\* removed, the frames are concatenated and checked
Assemble ==
    /\ pc = "clean"
    /\ i >= end_sheet
    /\ IF final_dfs = <<>>
       THEN Raise("NoUsableSheets") /\ UNCHANGED daily
       ELSE LET d == Concat(final_dfs)
            IN  IF \A k \in 1..Len(d) : d[k].date_rapport = NaT
                THEN Raise("NoDate") /\ UNCHANGED daily
                ELSE pc' = "assembled" /\ daily' = d /\ UNCHANGED err
    /\ fs' = [fs EXCEPT !.files = os_remove(fs.files, tmp_path)]
    /\ UNCHANGED <<wb, start_sheet, end_sheet, sort_ties, i, final_dfs, dates,
                   rolled, transitions, tables, columns, rerun,
                   header, mapped>>
    /\ UNCHANGED <<key_vars, app_vars>>

\* lines 245-265
Rollup ==
    /\ pc = "assembled"
    /\ rolled' = rolled_of(daily_sorted_of(daily), sort_ties)
    /\ pc' = "rolled"
    /\ UNCHANGED <<wb, start_sheet, end_sheet, sort_ties, i, final_dfs, dates,
                   daily, transitions, tables, columns, err, rerun,
                   header, mapped>>
    /\ UNCHANGED <<fs, key_vars, app_vars>>

\* lines 267-326
Transitions ==
    /\ pc = "rolled"
    /\ transitions' = transitions_of(rolled, sort_ties)
    /\ pc' = "transitioned"
    /\ UNCHANGED <<wb, start_sheet, end_sheet, sort_ties, i, final_dfs, dates,
                   daily, rolled, tables, columns, err, rerun,
                   header, mapped>>
    /\ UNCHANGED <<fs, key_vars, app_vars>>

\* a return that hands out the consolidated rows as the daily table
Materialize_consolidated ==
    /\ pc = "transitioned"
    /\ LET latest == latest_of(rolled)
           shown == consistent_of(rolled)
       IN  tables' = [actions_daily |-> [k \in 1..Len(shown) |->
                                            [f \in DOMAIN daily[1] |-> shown[k][f]]],
                      actions_consistent |-> shown,
                      actions_latest |-> latest,
                      ended_actions |-> ended_of(latest),
                      running_actions |-> running_of(latest),
                      postponed_actions |-> postponed_of(latest),
                      equipment_downtime |-> downtime_of(daily),
                      transitions |-> transitions]
    /\ columns' = [actions_daily |-> base_cols,
                   actions_consistent |-> consistent_cols,
                   actions_latest |-> latest_cols,
                   ended_actions |-> latest_cols,
                   running_actions |-> latest_cols,
                   postponed_actions |-> latest_cols,
                   equipment_downtime |-> base_cols,
                   transitions |-> transitions_cols(transitions)]
    /\ pc' = "done"
    /\ UNCHANGED <<wb, start_sheet, end_sheet, sort_ties, i, final_dfs, dates,
                   daily, rolled, transitions, err, rerun,
                   header, mapped>>
    /\ UNCHANGED <<fs, key_vars, app_vars>>

\* lines 328-390: the views are derived and the dict is returned
Materialize ==
    /\ pc = "transitioned"
    /\ LET latest == latest_of(rolled)
       IN  tables' = [actions_daily |-> daily,
                      actions_consistent |-> consistent_of(rolled),
                      actions_latest |-> latest,
                      ended_actions |-> ended_of(latest),
                      running_actions |-> running_of(latest),
                      postponed_actions |-> postponed_of(latest),
                      equipment_downtime |-> downtime_of(daily),
                      transitions |-> transitions]
    /\ columns' = [actions_daily |-> base_cols,
                   actions_consistent |-> consistent_cols,
                   actions_latest |-> latest_cols,
                   ended_actions |-> latest_cols,
                   running_actions |-> latest_cols,
                   postponed_actions |-> latest_cols,
                   equipment_downtime |-> base_cols,
                   transitions |-> transitions_cols(transitions)]
    /\ pc' = "done"
    /\ UNCHANGED <<wb, start_sheet, end_sheet, sort_ties, i, final_dfs, dates,
                   daily, rolled, transitions, err, rerun,
                   header, mapped>>
    /\ UNCHANGED <<fs, key_vars, app_vars>>

\* lines 139-201 as a whole, from sheet k on: the frames, or the exception
RECURSIVE clean_from(_, _, _)
clean_from(sheets, k, last) ==
    IF k > last THEN [err |-> "none", frames |-> <<>>]
    ELSE IF sheets[k].short THEN [err |-> "IndexError", frames |-> <<>>]
    ELSE LET rest == clean_from(sheets, k + 1, last)
             cols == NormColsOf[sheets[k].header]
         IN  IF rest.err # "none" THEN rest
             ELSE [err |-> "none",
                   frames |-> (IF Has(cols, champ_zone)
                               THEN <<CleanFrame(sheets[k], cols, k)>>
                               ELSE <<>>) \o rest.frames]

Failed(e) == [pc |-> "error", err |-> e, tables |-> EmptyTables]

\* lines 212-390 as a whole: what a call returns or raises
build_week_tables(book, first, last, ties) ==
    IF ~book.valid THEN Failed("ParseError")
    ELSE IF first < 1 \/ last > Len(book.sheets) THEN Failed("RangeError")
    ELSE LET cleaned == clean_from(book.sheets, first, last)
             d == Concat(cleaned.frames)
         IN  IF cleaned.err # "none" THEN Failed(cleaned.err)
             ELSE IF cleaned.frames = <<>> THEN Failed("NoUsableSheets")
             ELSE IF \A k \in 1..Len(d) : d[k].date_rapport = NaT THEN Failed("NoDate")
             ELSE LET r == rolled_of(daily_sorted_of(d), ties)
                      latest == latest_of(r)
                  IN  [pc |-> "done",
                       err |-> "none",
                       tables |-> [actions_daily |-> d,
                                   actions_consistent |-> consistent_of(r),
                                   actions_latest |-> latest,
                                   ended_actions |-> ended_of(latest),
                                   running_actions |-> running_of(latest),
                                   postponed_actions |-> postponed_of(latest),
                                   equipment_downtime |-> downtime_of(d),
                                   transitions |-> transitions_of(r, ties)]]

NoRun == [pc |-> "none", err |-> "none", tables |-> EmptyTables]

\* a sort that leaves equal dates in another order on the second call
ties_on_rerun_other(ties) == IF ties = "kept" THEN "reversed" ELSE "kept"

\* the order the build's sort leaves among equal dates on a second call: the
\* sort reads nothing but the array it is given
ties_on_rerun(ties) == ties

\* the function is called again on the same bytes and the same range
Rerun ==
    /\ pc \in {"done", "error"}
    /\ IF fs.writable
       THEN /\ rerun' = build_week_tables(wb, start_sheet, end_sheet, ties_on_rerun(sort_ties))
            /\ UNCHANGED fs
       ELSE /\ rerun' = Failed("OSError")
            /\ fs' = [fs EXCEPT !.files = fs.files \cup {tmp_path_again}]
    /\ pc' = "again"
    /\ UNCHANGED <<wb, start_sheet, end_sheet, sort_ties, i, final_dfs, dates,
                   daily, rolled, transitions, tables, columns, err,
                   header, mapped>>
    /\ UNCHANGED <<key_vars, app_vars>>

\* lines 24-53: norm_cols is called on a list of header cells
NormCols ==
    /\ pc = "cols"
    /\ mapped' = norm_cols(header)
    /\ pc' = "mapped"
    /\ UNCHANGED <<wb, start_sheet, end_sheet, sort_ties, i, final_dfs, dates,
                   daily, rolled, transitions, tables, columns, rerun, header, err>>
    /\ UNCHANGED <<fs, key_vars, app_vars>>

Next ==
    \/ NormCols
    \/ Rerun
    \/ OpenWorkbook
    \/ ParseSheet
    \/ Assemble
    \/ Rollup
    \/ Transitions
    \/ Materialize

(***************************************************************************)
(* Initial states: the workbook, the requested range and the sort build.   *)
(***************************************************************************)
\* workbooks of well-formed sheets, processed whole; a one-sheet workbook,
\* where a sheet that lists an action twice gives equal dates, is run under
\* both sort builds
InitRollup ==
    /\ \E n \in 1..MaxSheets :
          \E ss \in RollupWorkbooks(n, MaxRows) :
              /\ wb = [valid |-> TRUE, sheets |-> ss]
              /\ start_sheet = 1
              /\ end_sheet = n
              /\ sort_ties \in IF n = 1 THEN {"kept", "reversed"} ELSE {"kept"}
    /\ fs = EmptyDir

\* one sheet of any shape, alone or beside a well-formed sheet
InitNorm ==
    /\ \E s \in NormSheets :
          \E ss \in {<<s>>, <<s, TestSheet(2)>>, <<TestSheet(2), s>>} :
              /\ wb = [valid |-> TRUE, sheets |-> ss]
              /\ start_sheet = 1
              /\ end_sheet = Len(ss)
    /\ sort_ties = "kept"
    /\ fs = EmptyDir

\* any requested range over the test workbook, and bytes that are no workbook,
\* in a scratch directory that accepts the write or refuses it (disk full)
InitRange ==
    /\ \/ /\ \E n \in 1..MaxSheets :
                wb = [valid |-> TRUE, sheets |-> [k \in 1..n |-> TestSheet(k)]]
          /\ start_sheet \in 0..(MaxSheets + 1)
          /\ end_sheet \in 0..(MaxSheets + 1)
       \/ /\ wb = [valid |-> FALSE, sheets |-> <<>>]
          /\ start_sheet = 1
          /\ end_sheet = 1
    /\ sort_ties = "kept"
    /\ fs \in {[writable |-> w, files |-> {}] : w \in BOOLEAN}

\* one sheet per day over consecutive days, each saying of one action whether
\* it is unavailable
InitDowntime ==
    /\ \E rs \in [1..MaxDays -> DowntimeRows] :
          wb = [valid |-> TRUE, sheets |-> [d \in 1..MaxDays |-> DaySheet(d, rs[d])]]
    /\ start_sheet = 1
    /\ end_sheet = MaxDays
    /\ sort_ties = "kept"
    /\ fs = EmptyDir

\* a run of the pipeline, norm_cols not called on its own
InitRun ==
    /\ InitRollup \/ InitNorm \/ InitRange \/ InitDowntime
    /\ pc = "start"
    /\ header = <<>>

\* a call of norm_cols on a list of header cells, no workbook involved
InitCols ==
    /\ header \in SeqsOf(HeaderPool, 0, MaxCols)
    /\ pc = "cols"
    /\ wb = [valid |-> FALSE, sheets |-> <<>>]
    /\ start_sheet = 1
    /\ end_sheet = 1
    /\ sort_ties = "kept"
    /\ fs = EmptyDir

Init ==
    /\ InitRun \/ InitCols
    /\ mapped = <<>>
    /\ i = 0
    /\ final_dfs = <<>>
    /\ dates = <<>>
    /\ daily = <<>>
    /\ rolled = <<>>
    /\ transitions = <<>>
    /\ tables = EmptyTables
    /\ columns = NoColumns
    /\ rerun = NoRun
    /\ err = "none"
    /\ parts = <<>>
    /\ payloads = <<>>
    /\ SS = None
    /\ up = None
    /\ script_run = None

Spec == Init /\ [][Next]_vars

(***************************************************************************)
(* Properties.                                                             *)
(***************************************************************************)
Done == pc = "done"
Ended == pc \in {"done", "error"}

Rows(t) == 1..Len(t)
SameKey(a, b) == a.action_key = b.action_key

\* the date order of the rolled table: rows without a date come last
Earlier(a, b) ==
    /\ a.date_rapport # NaT
    /\ b.date_rapport = NaT \/ a.date_rapport < b.date_rapport

AnyFlag(r) == r.termine \/ r.en_cours \/ r.reporte

\* C1: in actions_consistent, for every action_key, a row on which termine is
\* true is followed, in date order, only by rows of that key on which termine
\* is true, whatever the raw flags of the later rows are.
C1_MonotonicLatch ==
    Done =>
        \A j, k \in Rows(tables.actions_consistent) :
            LET a == tables.actions_consistent[j]
                b == tables.actions_consistent[k]
            IN  (SameKey(a, b) /\ Earlier(a, b) /\ a.termine) => b.termine

\* an action done on one day and reported in progress, not done, on a later day
C1_Witness ==
    /\ Done
    /\ \E j, k \in Rows(rolled) :
          /\ SameKey(rolled[j], rolled[k])
          /\ rolled[j].date_rapport # NaT
          /\ rolled[j].date_rapport < rolled[k].date_rapport
          /\ rolled[j].termine
          /\ ~rolled[k].termine
          /\ rolled[k].en_cours
          /\ tables.actions_consistent[k].termine

\* C2: for every action_key, on the first day on which termine_final is true
\* and on every later day of that key, en_cours_final and reporte_final are
\* false on every row, also when several rows of the key carry the same date.
C2_SuppressedFromFirstDoneDay ==
    Done =>
        \A j, k \in Rows(tables.actions_consistent) :
            LET a == tables.actions_consistent[j]
                b == tables.actions_consistent[k]
            IN  (/\ SameKey(a, b)
                 /\ a.termine
                 /\ a.date_rapport # NaT
                 /\ b.date_rapport # NaT
                 /\ b.date_rapport >= a.date_rapport)
                => (~b.en_cours /\ ~b.reporte)

\* C3: on every row of the rolled table at most one of termine_final,
\* en_cours_final, reporte_final is true.
C3_MutuallyExclusive ==
    Done =>
        \A k \in Rows(tables.actions_consistent) :
            LET r == tables.actions_consistent[k]
            IN  /\ ~(r.termine /\ r.en_cours)
                /\ ~(r.termine /\ r.reporte)
                /\ ~(r.en_cours /\ r.reporte)

InTable(t, r) == \E k \in Rows(t) : t[k].index = r.index

\* C4: every row of actions_latest is in exactly one of ended_actions,
\* running_actions, postponed_actions, or in none of them exactly when its
\* three flags are false; no row is in two of them.
C4_LatestPartition ==
    Done =>
        \A k \in Rows(tables.actions_latest) :
            LET r == tables.actions_latest[k]
                e == InTable(tables.ended_actions, r)
                u == InTable(tables.running_actions, r)
                p == InTable(tables.postponed_actions, r)
            IN  /\ ~(e /\ u) /\ ~(e /\ p) /\ ~(u /\ p)
                /\ (~(e \/ u \/ p)) <=> ~AnyFlag(r)

\* the raw status flags of the key of daily[j] are the same on all its rows
ConstantFlags(j) ==
    \A k \in Rows(daily) :
        SameKey(daily[j], daily[k]) =>
            /\ daily[k].termine = daily[j].termine
            /\ daily[k].en_cours = daily[j].en_cours
            /\ daily[k].reporte = daily[j].reporte

EventsOf(key) == SelectSeq(tables.transitions, LAMBDA ev : ev.action_key = key)

\* C5 as stated: an action_key whose raw flags are the same on every day it
\* appears, constantly true flags included, has no row in transitions.
C5_NoEventWithoutChange ==
    Done => \A j \in Rows(daily) : ConstantFlags(j) => EventsOf(daily[j].action_key) = <<>>

\* the first date of the rows of a key in the date order (rows without a date
\* last)
FirstDate(key) ==
    LET ds == {daily[k].date_rapport : k \in {h \in Rows(daily) : daily[h].action_key = key}}
    IN  IF ds = {NaT} THEN NaT
        ELSE CHOOSE d \in ds \ {NaT} : \A e \in ds \ {NaT} : d <= e

\* C5 amended: an action_key whose raw flags are the same on every day it
\* appears has no row in transitions when the three flags are false, and
\* exactly one row when one of them is true: the event of its first
\* appearance, dated its first day and carrying its final flags.
C5_OneEventForFirstAppearance ==
    Done =>
        \A j \in Rows(daily) :
            ConstantFlags(j) =>
                LET evs == EventsOf(daily[j].action_key)
                IN  IF ~AnyFlag(daily[j]) THEN evs = <<>>
                    ELSE /\ Len(evs) = 1
                         /\ evs[1].date_rapport = FirstDate(daily[j].action_key)
                         /\ evs[1].termine = daily[j].termine
                         /\ evs[1].en_cours = (daily[j].en_cours /\ ~daily[j].termine)
                         /\ evs[1].reporte = (daily[j].reporte /\ ~daily[j].termine)

\* an action postponed, with the same flags, on two different days
C5_Witness ==
    /\ Done
    /\ \E j, k \in Rows(daily) :
          /\ SameKey(daily[j], daily[k])
          /\ daily[j].date_rapport # NaT
          /\ daily[j].date_rapport < daily[k].date_rapport
          /\ ConstantFlags(j)
          /\ daily[j].reporte
          /\ ~daily[j].termine
          /\ Len(EventsOf(daily[j].action_key)) = 1

\* the action of daily[j] is listed twice: in progress on daily[j]'s day and
\* done on the later day of daily[k]
SingleFlip(j, k) ==
    /\ SameKey(daily[j], daily[k])
    /\ {h \in Rows(daily) : SameKey(daily[h], daily[j])} = {j, k}
    /\ daily[j].date_rapport # NaT
    /\ daily[j].date_rapport < daily[k].date_rapport
    /\ daily[j].en_cours /\ ~daily[j].termine /\ ~daily[j].reporte
    /\ daily[k].termine /\ ~daily[k].en_cours /\ ~daily[k].reporte

LatestOf(key) == SelectSeq(tables.actions_latest, LAMBDA r : r.action_key = key)

FlipMsg ==
    <<"t", "e", "r", "m", "i", "n", "e", ":", " ", "F", "a", "l", "s", "e", " ", "-", ">",
      " ", "T", "r", "u", "e", ";", " ", "e", "n", "_", "c", "o", "u", "r", "s", ":", " ",
      "T", "r", "u", "e", " ", "-", ">", " ", "F", "a", "l", "s", "e">>

StartMsg ==
    <<"e", "n", "_", "c", "o", "u", "r", "s", ":", " ", "F", "a", "l", "s", "e", " ", "-",
      ">", " ", "T", "r", "u", "e">>

\* the event of the flip: dated the second day, termine false -> true and
\* en_cours true -> false
IsFlipEvent(ev, k) ==
    /\ ev.date_rapport = daily[k].date_rapport
    /\ ev.termine /\ ~ev.en_cours /\ ~ev.reporte
    /\ ev.change_desc = FlipMsg

\* C6 as stated: for an action in progress on day 1 and done on day 2,
\* transitions holds exactly one event of that key, the event of the flip
\* dated day 2, and actions_latest shows the action done.
C6_SingleFlipOneEvent ==
    Done =>
        \A j, k \in Rows(daily) :
            SingleFlip(j, k) =>
                LET evs == EventsOf(daily[j].action_key)
                    last == LatestOf(daily[j].action_key)
                IN  /\ Len(evs) = 1
                    /\ IsFlipEvent(evs[1], k)
                    /\ Len(last) = 1 /\ last[1].termine

\* C6 amended: for an action in progress on day 1 and done on day 2,
\* transitions holds exactly two events of that key: the event of its first
\* appearance dated day 1 (en_cours false -> true) and exactly one event dated
\* day 2, the flip (termine false -> true, en_cours true -> false); and
\* actions_latest shows the action done, dated day 2.
C6_SingleFlipTwoEvents ==
    Done =>
        \A j, k \in Rows(daily) :
            SingleFlip(j, k) =>
                LET evs == EventsOf(daily[j].action_key)
                    last == LatestOf(daily[j].action_key)
                IN  /\ Len(evs) = 2
                    /\ evs[1].date_rapport = daily[j].date_rapport
                    /\ evs[1].en_cours /\ ~evs[1].termine /\ ~evs[1].reporte
                    /\ evs[1].change_desc = StartMsg
                    /\ IsFlipEvent(evs[2], k)
                    /\ Len(last) = 1
                    /\ last[1].termine /\ ~last[1].en_cours /\ ~last[1].reporte
                    /\ last[1].date_rapport = daily[k].date_rapport

\* a run that returned tables for an action in progress one day and done on a
\* later day
C6_Witness ==
    /\ Done
    /\ \E j, k \in Rows(daily) : SingleFlip(j, k)

KeyRows(t, key) == SelectSeq(t, LAMBDA r : r.action_key = key)

\* C7: actions_latest holds exactly one row per action_key of actions_daily,
\* and that row carries the greatest date_rapport of the key's rolled rows
\* (rows without a date counting as no date) with the final flags of a rolled
\* row of that date.
C7_LatestIsMaxDateRow ==
    Done =>
        /\ \A j \in Rows(daily) : Len(LatestOf(daily[j].action_key)) = 1
        /\ \A k \in Rows(tables.actions_latest) :
              LET last == tables.actions_latest[k]
                  g == KeyRows(tables.actions_consistent, last.action_key)
              IN  /\ last.date_rapport = MaxDate(g)
                  /\ \E h \in Rows(g) :
                        /\ g[h].date_rapport = MaxDate(g)
                        /\ g[h].termine = last.termine
                        /\ g[h].en_cours = last.en_cours
                        /\ g[h].reporte = last.reporte

BadRange ==
    \/ start_sheet < 1
    \/ end_sheet > Len(wb.sheets)
    \/ end_sheet < start_sheet

\* C8: on a workbook of N sheets a run with start_sheet < 1, end_sheet > N or
\* end_sheet < start_sheet fails with the range error, before any sheet is
\* parsed, and produces no table.
C8_BadRangeIsRangeError ==
    (wb.valid /\ BadRange /\ pc # "start") =>
        /\ pc = "error"
        /\ err = "RangeError"
        /\ dates = <<>>
        /\ final_dfs = <<>>
        /\ tables = EmptyTables

\* the rows of sheet k that survive normalisation
Survivors(k) ==
    LET df_raw == wb.sheets[k]
        cols == NormColsOf[df_raw.header]
    IN  IF df_raw.short \/ ~Has(cols, champ_zone) THEN <<>>
        ELSE CleanFrame(df_raw, cols, k)

DatedSurvivor ==
    \E k \in start_sheet..end_sheet :
        \E j \in Rows(Survivors(k)) : Survivors(k)[j].date_rapport # NaT

\* C9: over a valid range of a valid workbook the run fails, producing no
\* table, when no row survives normalisation or every surviving row lacks a
\* date, and succeeds as soon as one surviving row has a date.
C9_FailsIffNoDatedRow ==
    (Ended /\ wb.valid /\ ~BadRange) =>
        IF DatedSurvivor
        THEN pc = "done"
        ELSE pc = "error" /\ tables = EmptyTables

\* the identity cells that spell the sentinel
SentinelCells ==
    {Txt(<<"P", "R", "E", "V", "I", "S", "I", "O", "N">>),
     Txt(<<" ", "P", "r", "e'", "v", "i", "s", "i", "o", "n">>)}

\* the identity texts of the sentinel spellings after normalisation
SentinelTexts ==
    {<<"P", "R", "E", "V", "I", "S", "I", "O", "N">>,
     <<"P", "r", "e", "v", "i", "s", "i", "o", "n">>}

IsSentinelRow(row, cols) == CellOf(row, cols, champ_zone) \in SentinelCells

\* the sheet without its first sentinel row and everything below it
BeforeSentinel(df_raw, cols) ==
    LET hits == {j \in Rows(df_raw.rows) : IsSentinelRow(df_raw.rows[j], cols)}
    IN  IF hits = {} THEN df_raw
        ELSE LET first == CHOOSE j \in hits : \A h \in hits : j <= h
             IN  [df_raw EXCEPT !.rows = SubSeq(df_raw.rows, 1, first - 1)]

NoSentinelIn(t) == \A k \in Rows(t) : t[k].champ_zone \notin SentinelTexts

\* C10: the rows a sheet contributes to actions_daily are those of the sheet
\* cut before its first sentinel row, in any spelling of the sentinel, so that
\* the rows above it are kept as they are, the sentinel row and the rows below
\* it appear in no output table, and a sheet that starts with the sentinel
\* contributes nothing.
C10_SentinelCut ==
    Done =>
        /\ \A k \in start_sheet..end_sheet :
              LET df_raw == wb.sheets[k]
                  cols == NormColsOf[df_raw.header]
              IN  Has(cols, champ_zone) =>
                      SelectSeq(tables.actions_daily, LAMBDA r : r.feuille = k)
                          = CleanFrame(BeforeSentinel(df_raw, cols), cols, k)
        /\ NoSentinelIn(tables.actions_daily)
        /\ NoSentinelIn(tables.actions_consistent)
        /\ NoSentinelIn(tables.actions_latest)
        /\ NoSentinelIn(tables.ended_actions)
        /\ NoSentinelIn(tables.running_actions)
        /\ NoSentinelIn(tables.postponed_actions)
        /\ NoSentinelIn(tables.equipment_downtime)
        /\ \A k \in Rows(tables.transitions) :
              \E j \in Rows(tables.actions_daily) :
                  SameKey(tables.transitions[k], tables.actions_daily[j])

\* a sheet with an action above the sentinel and an action below it, of which
\* the tables hold the first only
C10_Witness ==
    /\ Done
    /\ \E k \in start_sheet..end_sheet :
          LET df_raw == wb.sheets[k]
              cols == NormColsOf[df_raw.header]
          IN  /\ Has(cols, champ_zone)
              /\ Len(df_raw.rows) = 3
              /\ CellOf(df_raw.rows[1], cols, champ_zone) = Z1
              /\ IsSentinelRow(df_raw.rows[2], cols)
              /\ CellOf(df_raw.rows[3], cols, champ_zone) = Z1
              /\ Len(SelectSeq(tables.actions_daily, LAMBDA r : r.feuille = k)) = 1

\* C11: equipment_downtime holds exactly the rows of actions_daily whose
\* indisponible flag is true, in their order: as many rows per sheet as the
\* sheet has surviving rows flagged unavailable, none for a sheet that does
\* not list the action, none merged.
C11_DowntimeIsRaw ==
    Done =>
        /\ tables.equipment_downtime
              = SelectSeq(tables.actions_daily, LAMBDA r : r.indisponible)
        /\ \A k \in start_sheet..end_sheet :
              SelectSeq(tables.equipment_downtime, LAMBDA r : r.feuille = k)
                  = SelectSeq(Survivors(k), LAMBDA r : r.indisponible)

\* an action unavailable on a day, not listed the next day, unavailable the
\* day after: two rows
C11_Witness ==
    /\ Done
    /\ \E j, k \in Rows(tables.equipment_downtime) :
          LET a == tables.equipment_downtime[j]
              b == tables.equipment_downtime[k]
          IN  /\ SameKey(a, b)
              /\ a.date_rapport # NaT
              /\ b.date_rapport = a.date_rapport + 2
              /\ \A h \in Rows(daily) :
                    SameKey(daily[h], a) => daily[h].date_rapport # a.date_rapport + 1
              /\ \E h \in Rows(daily) : daily[h].date_rapport = a.date_rapport + 1
              /\ Len(KeyRows(tables.equipment_downtime, a.action_key)) = 2

SameFields(a, b) ==
    /\ a.champ_zone = b.champ_zone
    /\ a.plateforme_sous_zone = b.plateforme_sous_zone
    /\ a.num_puits = b.num_puits
    /\ a.tag_equipement = b.tag_equipement
    /\ a.sous_equipement = b.sous_equipement
    /\ a.metier = b.metier
    /\ a.travaux_commentaires = b.travaux_commentaires

\* C12: two rows of actions_daily with the same values in the seven
\* normalised descriptive fields have the same action_key, whatever their
\* sheet, date, status flags and indisponible flag.
C12_KeyPurity ==
    Done =>
        \A j, k \in Rows(tables.actions_daily) :
            SameFields(tables.actions_daily[j], tables.actions_daily[k])
                => SameKey(tables.actions_daily[j], tables.actions_daily[k])

\* the same action listed in two sheets, on two dates, with other status
\* flags and another indisponible flag
C12_Witness ==
    /\ Done
    /\ \E j, k \in Rows(tables.actions_daily) :
          LET a == tables.actions_daily[j]
              b == tables.actions_daily[k]
          IN  /\ SameFields(a, b)
              /\ a.feuille # b.feuille
              /\ a.date_rapport # b.date_rapport
              /\ a.termine # b.termine
              /\ a.en_cours # b.en_cours
              /\ a.indisponible # b.indisponible
              /\ SameKey(a, b)

\* C13: actions_daily holds at most one row per action_key and report date.
C13_DailyUnique ==
    Done =>
        \A j, k \in Rows(tables.actions_daily) :
            LET a == tables.actions_daily[j]
                b == tables.actions_daily[k]
            IN  (SameKey(a, b) /\ a.date_rapport # NaT /\ a.date_rapport = b.date_rapport)
                    => j = k

\* C14: actions_daily holds exactly the surviving rows of the sheets of the
\* requested range: the rows of a sheet in their order in the sheet, every
\* row of a sheet before every row of a later sheet, whatever the keys and
\* the dates are.
C14_DailyOrder ==
    Done =>
        /\ \A k \in Rows(tables.actions_daily) :
              tables.actions_daily[k].feuille \in start_sheet..end_sheet
        /\ \A j, k \in Rows(tables.actions_daily) :
              j < k => tables.actions_daily[j].feuille <= tables.actions_daily[k].feuille
        /\ \A k \in start_sheet..end_sheet :
              SelectSeq(tables.actions_daily, LAMBDA r : r.feuille = k) = Survivors(k)

\* an action listed in a sheet and again in a later sheet that carries an
\* earlier date: the rollup sorts the second row before the first
C14_Witness ==
    /\ Done
    /\ \E j, k \in Rows(tables.actions_daily) :
          LET a == tables.actions_daily[j]
              b == tables.actions_daily[k]
          IN  /\ j < k
              /\ a.feuille < b.feuille
              /\ SameKey(a, b)
              /\ b.date_rapport # NaT
              /\ b.date_rapport < a.date_rapport
    /\ rolled[1].date_rapport < rolled[2].date_rapport

\* sheet k has no identity column after renaming, or no header row at all
NoZoneSheet(k) ==
    wb.sheets[k].short \/ ~Has(NormColsOf[wb.sheets[k].header], champ_zone)

\* C15: when some sheet of the range yields a dated row, the run returns
\* tables whatever the other sheets of the range are: a sheet without
\* champ_zone column (a sheet too short to have a header row included)
\* contributes no row, and a sheet without a readable date contributes its
\* rows with a null date_rapport.
C15_SheetAnomaliesDoNotAbort ==
    (Ended /\ wb.valid /\ ~BadRange /\ DatedSurvivor) =>
        /\ pc = "done"
        /\ \A k \in start_sheet..end_sheet :
              LET got == SelectSeq(tables.actions_daily, LAMBDA r : r.feuille = k)
              IN  /\ NoZoneSheet(k) => got = <<>>
                  /\ (~NoZoneSheet(k) /\ wb.sheets[k].date.k # "date") =>
                        /\ got = Survivors(k)
                        /\ \A j \in Rows(got) : got[j].date_rapport = NaT

TableNames ==
    {"actions_daily", "actions_consistent", "actions_latest", "ended_actions",
     "running_actions", "postponed_actions", "equipment_downtime", "transitions"}

\* C16: a run that succeeds returns exactly the eight named tables, and each
\* of them has an action_key column, whether it has rows or not.
C16_OutputContract ==
    Done =>
        /\ DOMAIN tables = TableNames
        /\ DOMAIN columns = TableNames
        /\ \A n \in TableNames :
              /\ Has(columns[n], action_key)
              /\ \A k \in Rows(tables[n]) : "action_key" \in DOMAIN tables[n][k]

\* a run that succeeds with no change to report and no action done
C16_Witness ==
    /\ Done
    /\ tables.actions_daily # <<>>
    /\ tables.transitions = <<>>
    /\ tables.ended_actions = <<>>
    /\ tables.equipment_downtime = <<>>

Canon(h) ==
    CASE h \in {H_Champ, H_CHAMP, H_ChampPlateforme} -> champ_zone
      [] h = H_Plateforme -> plateforme_sous_zone
      [] h = H_Puits -> num_puits
      [] h = H_Tag -> tag_equipement
      [] h = H_Sous -> sous_equipement
      [] h \in {H_Metier, H_METIER} -> metier
      [] h = H_Travail -> travaux_commentaires
      [] h = H_Termine -> termine
      [] h = H_Reporte -> reporte
      [] h = H_Autre -> <<"a", "u", "t", "r", "e", " ", "e">>

HasPlateforme(h) ==
    Contains(Lower(h), <<"p", "l", "a", "t", "e", "f", "o", "r", "m", "e">>)

IsChampZone(h) ==
    StartsWith(Lower(h), <<"c", "h", "a", "m", "p", " ", "/", " ", "z", "o", "n", "e">>)

\* C18 as stated: norm_cols returns a list of the length and order of its
\* input, in which every header that contains "plateforme" is
\* plateforme_sous_zone, every other spelling of the synonym table is its
\* canonical name whatever its case and accents, and a header of no known
\* column is its lower-cased, accent-stripped text.
C18_RenamingAnyPlateforme ==
    pc = "mapped" =>
        /\ Len(mapped) = Len(header)
        /\ \A j \in Rows(header) :
              mapped[j] = IF HasPlateforme(header[j]) THEN plateforme_sous_zone
                          ELSE Canon(header[j])

\* C18 amended: the rules apply in order, the first that matches wins: a
\* header that starts with "champ / zone" is champ_zone also when it contains
\* "plateforme", and only the other headers that contain "plateforme" are
\* plateforme_sous_zone; the rest as stated.
C18_RenamingInRuleOrder ==
    pc = "mapped" =>
        /\ Len(mapped) = Len(header)
        /\ \A j \in Rows(header) :
              mapped[j] = IF IsChampZone(header[j]) THEN champ_zone
                          ELSE IF HasPlateforme(header[j]) THEN plateforme_sous_zone
                          ELSE Canon(header[j])

\* a call on a header that starts as champ_zone and contains "plateforme",
\* followed by a header of no known column
C18_Witness ==
    /\ pc = "mapped"
    /\ header = <<H_ChampPlateforme, H_Autre>>
    /\ mapped[1] = champ_zone

Rolled == pc = "rolled"

\* C19: the rolled rows of a key are in date order (rows without a date
\* last); on each of them termine_final is true exactly when raw termine is
\* true on it or on an earlier row of the key, the forward-filled flags are
\* the raw flags (a raw flag is never missing, so nothing is filled), and
\* en_cours_final and reporte_final are the forward-filled flags where
\* termine_final is false, and false where it is true.
C19_RollupFormula ==
    Rolled =>
        \A j \in Rows(rolled) :
            LET g == KeyRows(rolled, rolled[j].action_key)
            IN  \A p \in Rows(g) :
                    /\ \A q \in 1..(p - 1) : ~Earlier(g[p], g[q])
                    /\ g[p].termine_final <=> \E q \in 1..p : g[q].termine
                    /\ g[p].en_cours_ff = g[p].en_cours
                    /\ g[p].reporte_ff = g[p].reporte
                    /\ g[p].en_cours_final = (g[p].en_cours_ff /\ ~g[p].termine_final)
                    /\ g[p].reporte_final = (g[p].reporte_ff /\ ~g[p].termine_final)

\* an action done on one day and listed in progress, not done, on a later
\* day: termine_final stays true and en_cours_final is false
C19_Witness ==
    /\ Rolled
    /\ \E j, k \in Rows(rolled) :
          /\ SameKey(rolled[j], rolled[k])
          /\ Earlier(rolled[j], rolled[k])
          /\ rolled[j].termine
          /\ ~rolled[k].termine /\ rolled[k].en_cours /\ rolled[k].en_cours_ff
          /\ rolled[k].termine_final
          /\ ~rolled[k].en_cours_final

\* the final flags of the row before row p of a key, all false before the
\* first row
FlagsBefore(g, p) ==
    IF p = 1 THEN <<FALSE, FALSE, FALSE>>
    ELSE <<g[p - 1].termine_final, g[p - 1].en_cours_final, g[p - 1].reporte_final>>

FlagsAt(g, p) == <<g[p].termine_final, g[p].en_cours_final, g[p].reporte_final>>

\* "field: old -> new" for a flag that changed to new
ItemText(field, new) ==
    field \o (IF new
              THEN <<":", " ", "F", "a", "l", "s", "e", " ", "-", ">", " ", "T", "r", "u", "e">>
              ELSE <<":", " ", "T", "r", "u", "e", " ", "-", ">", " ", "F", "a", "l", "s", "e">>)

\* the event of row p of a key: its key, date and final flags, and one item
\* per flag that differs from the row before
EventAt(g, p) ==
    LET names == <<termine, en_cours, reporte>>
        items == SelectSeq([f \in 1..3 |->
                               IF FlagsAt(g, p)[f] # FlagsBefore(g, p)[f]
                               THEN ItemText(names[f], FlagsAt(g, p)[f])
                               ELSE <<>>],
                           LAMBDA x : x # <<>>)
    IN  [action_key |-> g[p].action_key,
         date_rapport |-> g[p].date_rapport,
         termine |-> g[p].termine_final,
         en_cours |-> g[p].en_cours_final,
         reporte |-> g[p].reporte_final,
         change_desc |-> JoinWith(items, <<";", " ">>)]

\* the events of a key: one for each of its rolled rows, in their order,
\* that differs from the row before it
EventsByWalk(g) ==
    LET changed == SelectSeq([p \in Rows(g) |-> p],
                             LAMBDA p : FlagsAt(g, p) # FlagsBefore(g, p))
    IN  [c \in Rows(changed) |-> EventAt(g, changed[c])]

DailyOf(k) == SelectSeq(tables.actions_daily, LAMBDA r : r.feuille = k)

\* C21: the returned actions_daily is the table assembled before the rollup,
\* untouched by the rollup and the transitions; for every sheet of the range
\* of which every row was kept, the n-th daily row of the sheet carries the
\* termine, en_cours, reporte and indisponible values normalised from the
\* n-th row of the sheet, whatever the other rows of the action say.
C21_DailyKeepsRawFlags ==
    Done =>
        /\ tables.actions_daily = daily
        /\ \A k \in start_sheet..end_sheet :
              LET raw == wb.sheets[k].rows
                  cols == NormColsOf[wb.sheets[k].header]
                  kept == DailyOf(k)
              IN  Len(kept) = Len(raw) =>
                      \A n \in Rows(raw) :
                          /\ kept[n].termine = FlagOf(raw[n], cols, termine)
                          /\ kept[n].en_cours = FlagOf(raw[n], cols, en_cours)
                          /\ kept[n].reporte = FlagOf(raw[n], cols, reporte)
                          /\ kept[n].indisponible = FlagOf(raw[n], cols, indisponible)

\* an action listed done and in progress at once on one day and in progress,
\* not done, on a later day: the daily table shows both rows as listed while
\* the consolidated table shows them done and not in progress
C21_Witness ==
    /\ Done
    /\ \E j, k \in Rows(tables.actions_daily) :
          LET a == tables.actions_daily[j]
              b == tables.actions_daily[k]
          IN  /\ SameKey(a, b) /\ Earlier(a, b)
              /\ a.termine /\ a.en_cours
              /\ ~b.termine /\ b.en_cours
    /\ \A k \in Rows(tables.actions_consistent) :
          /\ tables.actions_consistent[k].termine
          /\ ~tables.actions_consistent[k].en_cours

\* C25: on every rolled row en_cours_final is the raw en_cours of that same
\* row and not termine_final, and reporte_final is the raw reporte of that
\* same row and not termine_final: nothing is carried over from an earlier
\* day, since a rolled row exists only for a day on which the action is
\* listed and its raw flags are never missing.
C25_NoCarryOver ==
    Rolled =>
        \A j \in Rows(rolled) :
            /\ rolled[j].en_cours_final = (rolled[j].en_cours /\ ~rolled[j].termine_final)
            /\ rolled[j].reporte_final = (rolled[j].reporte /\ ~rolled[j].termine_final)

\* an action in progress on one day and listed with all flags false on a
\* later day: en_cours_final is false on the later day
C25_Witness ==
    /\ Rolled
    /\ \E j, k \in Rows(rolled) :
          /\ SameKey(rolled[j], rolled[k])
          /\ Earlier(rolled[j], rolled[k])
          /\ rolled[j].en_cours /\ rolled[j].en_cours_final
          /\ ~AnyFlag(rolled[k])
          /\ ~rolled[k].termine_final
          /\ ~rolled[k].en_cours_final

\* the event reports termine going from false to true, or from true to false
TermineUp(ev) == StartsWith(ev.change_desc, ItemText(termine, TRUE))
TermineDown(ev) == StartsWith(ev.change_desc, ItemText(termine, FALSE))

C22_ScratchFileRemoved ==
    pc \in {"error", "assembled", "rolled", "transitioned", "done", "again"} =>
        fs.files = {}

(***************************************************************************)
(* _action_key on its own: the payloads of two rows.                       *)
(***************************************************************************)
\* the pipeline variables while no run of the pipeline is going on
NoPipeline ==
    /\ wb = [valid |-> FALSE, sheets |-> <<>>]
    /\ start_sheet = 1
    /\ end_sheet = 1
    /\ sort_ties = "kept"
    /\ i = 0
    /\ final_dfs = <<>>
    /\ dates = <<>>
    /\ daily = <<>>
    /\ rolled = <<>>
    /\ transitions = <<>>
    /\ tables = EmptyTables
    /\ columns = NoColumns
    /\ rerun = NoRun
    /\ header = <<>>
    /\ mapped = <<>>
    /\ err = "none"
    /\ fs = EmptyDir

\* texts of letters and separator characters, the empty text included
FieldTexts == SeqsOf({"a", "|"}, 0, MaxFieldLen)

\* a row whose first two descriptive cells hold the texts f1 and f2
KeyRow(f1, f2) ==
    [RawRow(Txt(f1), Work1, FALSE, TRUE, FALSE, FALSE) EXCEPT ![2] = Txt(f2)]

\* the seven lower-cased normalised descriptive fields of a row
FieldsOf(row) ==
    [k \in 1..Len(DescCols) |->
        Lower(strip_accents_spaces(RowGet(row, NormColsOf[StdHeader], DescCols[k])))]

InitKeys ==
    /\ NoPipeline
    /\ pc = "keys"
    /\ \E a1, a2, b1, b2 \in FieldTexts : parts = <<KeyRow(a1, a2), KeyRow(b1, b2)>>
    /\ payloads = <<>>
    /\ SS = None
    /\ up = None
    /\ script_run = None

\* lines 77-88: the payload of each of the two rows
ActionKeys ==
    /\ pc = "keys"
    /\ payloads' = [k \in 1..2 |-> _action_key(parts[k], NormColsOf[StdHeader])]
    /\ pc' = "keyed"
    /\ UNCHANGED <<wb, start_sheet, end_sheet, sort_ties, i, final_dfs, dates,
                   daily, rolled, transitions, tables, columns, rerun, header, mapped, err>>
    /\ UNCHANGED <<fs, parts, app_vars>>

NextKeys == ActionKeys

SpecKeys == InitKeys /\ [][NextKeys]_vars

\* C27: two rows whose seven lower-cased normalised descriptive fields differ
\* in at least one field have different payloads, also when a field holds
\* the separator or is empty.
C27_PayloadInjective ==
    pc = "keyed" =>
        (FieldsOf(parts[1]) # FieldsOf(parts[2]) => payloads[1] # payloads[2])

(***************************************************************************)
(* The app: st.session_state over script runs (src/app.py).                *)
(***************************************************************************)
\* sha1_bytes: None for None, else a digest that stands for the bytes (two
\* different files of the model never share a digest)
sha1_bytes(b) == IF b = None THEN None ELSE Some([sha1 |-> Get(b)])

\* lines 36-63: the session state after ensure_ss in a new session
NewSession ==
    [file_bytes |-> None, uploaded_hash |-> None,
     start_sheet |-> 1, end_sheet_opt |-> <<>>,
     tables_full |-> None, tables_view |-> None, counts_view |-> None,
     last_error |-> None,
     filter_dmin |-> None, filter_dmax |-> None, filter_metier |-> {},
     last_run_file_hash |-> None, last_run_start_sheet |-> None,
     last_run_end_sheet |-> None]

\* an upload handling that keeps the tables of the file uploaded before
upload_handling_keep(S, u) ==
    IF u = None THEN S
    ELSE [(IF sha1_bytes(u) # S.uploaded_hash
           THEN [S EXCEPT !.uploaded_hash = sha1_bytes(u),
                          !.last_error = None,
                          !.filter_dmin = None,
                          !.filter_dmax = None]
           ELSE S) EXCEPT !.file_bytes = u]

\* lines 88-101: the file held by the uploader is taken over; a file with a
\* new hash resets the tables, the error and the date filters
upload_handling(S, u) ==
    IF u = None THEN S
    ELSE LET new_bytes == u
             new_hash == sha1_bytes(new_bytes)
         IN  [(IF new_hash # S.uploaded_hash
               THEN [S EXCEPT !.uploaded_hash = new_hash,
                              !.tables_full = None,
                              !.tables_view = None,
                              !.counts_view = None,
                              !.last_error = None,
                              !.filter_dmin = None,
                              !.filter_dmax = None]
               ELSE S) EXCEPT !.file_bytes = new_bytes]

\* the digits of the sheet numbers a user may type
Digits == <<"0", "1", "2", "3", "4", "5", "6", "7", "8", "9">>

\* int(text) for a text of one character: the number, or ValueError
int_of(text) ==
    IF Len(Strip(text)) = 1 /\ \E n \in 1..Len(Digits) : Digits[n] = Strip(text)[1]
    THEN [ok |-> TRUE, v |-> (CHOOSE n \in 1..Len(Digits) : Digits[n] = Strip(text)[1]) - 1]
    ELSE [ok |-> FALSE, v |-> 0]

\* lines 129-150: the range to run on, None when there is none; bytes that
\* are no workbook make detect_last_sheet raise, and no range results
resolve_range_or_warn(S) ==
    IF S.file_bytes = None THEN None
    ELSE IF S.end_sheet_opt # <<>> /\ ~int_of(S.end_sheet_opt).ok THEN None
    ELSE IF ~Get(S.file_bytes).valid THEN None
    ELSE LET total_sheets == Len(Get(S.file_bytes).sheets)
             end == IF S.end_sheet_opt = <<>> THEN total_sheets
                    ELSE int_of(S.end_sheet_opt).v
             start == S.start_sheet
         IN  IF start < 1 \/ end > total_sheets THEN None
             ELSE IF end < start THEN None
             ELSE Some(<<start, end>>)

\* dt.date.today(), as a day of the model
today == 1

\* filters.py lines 7-18: the first and the last date of actions_daily
date_bounds_from_tables(tbls) ==
    LET df == tbls.actions_daily
        ds == {df[k].date_rapport : k \in 1..Len(df)} \ {NaT}
    IN  IF df = <<>> \/ ds = {} THEN <<today, today>>
        ELSE <<CHOOSE d \in ds : \A x \in ds : d <= x,
               CHOOSE d \in ds : \A x \in ds : x <= d>>

\* filters.py lines 20-23
clamp_date(value, lo, hi) ==
    IF value < lo THEN lo ELSE IF value > hi THEN hi ELSE value

\* filters.py lines 25-39: the date filters of the session, defaulted,
\* clamped to the bounds of the tables and put in order
normalize_date_filters(S, tbls) ==
    LET lo == date_bounds_from_tables(tbls)[1]
        hi == date_bounds_from_tables(tbls)[2]
        dmin == clamp_date(IF S.filter_dmin = None THEN lo ELSE Get(S.filter_dmin), lo, hi)
        dmax == clamp_date(IF S.filter_dmax = None THEN hi ELSE Get(S.filter_dmax), lo, hi)
    IN  IF dmin > dmax
        THEN [S EXCEPT !.filter_dmin = Some(dmax), !.filter_dmax = Some(dmin)]
        ELSE [S EXCEPT !.filter_dmin = Some(dmin), !.filter_dmax = Some(dmax)]

\* the columns of each table of a returned dict
columns_of(tbls) ==
    [actions_daily |-> base_cols,
     actions_consistent |-> consistent_cols,
     actions_latest |-> latest_cols,
     ended_actions |-> latest_cols,
     running_actions |-> latest_cols,
     postponed_actions |-> latest_cols,
     equipment_downtime |-> base_cols,
     transitions |-> transitions_cols(tbls.transitions)]

\* a date filter that leaves out the rows of the last day
filter_tables_by_dates_open(tbls, dmin, dmax) ==
    [name \in DOMAIN tbls |->
        IF Has(columns_of(tbls)[name], date_rapport) /\ tbls[name] # <<>>
        THEN SelectSeq(tbls[name],
                       LAMBDA r : /\ r.date_rapport # NaT
                                  /\ r.date_rapport >= dmin
                                  /\ r.date_rapport < dmax)
        ELSE tbls[name]]

\* filters.py lines 41-49: a copy of each table, narrowed to the rows dated
\* from dmin to dmax where the table has rows and a date column (a
\* comparison with NaT is false)
filter_tables_by_dates(tbls, dmin, dmax) ==
    [name \in DOMAIN tbls |->
        IF Has(columns_of(tbls)[name], date_rapport) /\ tbls[name] # <<>>
        THEN SelectSeq(tbls[name],
                       LAMBDA r : /\ r.date_rapport # NaT
                                  /\ r.date_rapport >= dmin
                                  /\ r.date_rapport <= dmax)
        ELSE tbls[name]]

\* filters.py lines 51-52
recount(filtered_tables) ==
    [name \in DOMAIN filtered_tables |-> Len(filtered_tables[name])]

\* app.py lines 251-271 with the metier filter, the other entity filters
\* being empty: the tables that have a travaux_commentaires column keep the
\* rows of the selected metiers
apply_entity_filters(S, view) ==
    [name \in DOMAIN view |->
        IF Has(columns_of(view)[name], travaux_commentaires) /\ S.filter_metier # {}
        THEN SelectSeq(view[name], LAMBDA r : r.metier \in S.filter_metier)
        ELSE view[name]]

\* F(e), with e evaluated once
At(F(_), e) == CHOOSE y \in {F(x) : x \in {e}} : TRUE

\* app.py lines 172-174: the date filters are normalised against the new
\* tables and the view and its counts are derived
with_view(S) ==
    At(LAMBDA S2 :
           At(LAMBDA view : [S2 EXCEPT !.tables_view = Some(view),
                                       !.counts_view = Some(recount(view))],
              filter_tables_by_dates(Get(S2.tables_full),
                                     Get(S2.filter_dmin), Get(S2.filter_dmax))),
       normalize_date_filters(S, Get(S.tables_full)))

\* a run that stores the range it was asked for before the pipeline raises
run_pipeline_eager(S, s, e) ==
    At(LAMBDA result :
           LET S0 == [S EXCEPT !.last_run_file_hash = sha1_bytes(S.file_bytes),
                               !.last_run_start_sheet = Some(s),
                               !.last_run_end_sheet = Some(e)]
           IN  IF result.pc = "error" THEN [S |-> S0, raised |-> result.err]
               ELSE [S |-> with_view([S0 EXCEPT !.tables_full = Some(result.tables)]),
                     raised |-> "none"],
       build_week_tables(Get(S.file_bytes), s, e, "kept"))

\* app.py lines 166-174: the session after the call, and the exception that
\* left it, "none" if none; an exception of the pipeline leaves before
\* anything is assigned
run_pipeline_excel_only(S, s, e) ==
    At(LAMBDA result :
           IF result.pc = "error" THEN [S |-> S, raised |-> result.err]
           ELSE [S |-> with_view([S EXCEPT !.tables_full = Some(result.tables),
                                           !.last_run_file_hash = sha1_bytes(S.file_bytes),
                                           !.last_run_start_sheet = Some(s),
                                           !.last_run_end_sheet = Some(e)]),
                 raised |-> "none"],
       build_week_tables(Get(S.file_bytes), s, e, "kept"))

\* app.py lines 178-189: the button was clicked
run_section(S) ==
    LET S0 == [S EXCEPT !.last_error = None]
        rng == resolve_range_or_warn(S0)
    IN  IF rng = None THEN [S |-> S0, raised |-> "no range"]
        ELSE At(LAMBDA r :
                    IF r.raised = "none" THEN r
                    ELSE [S |-> [r.S EXCEPT !.last_error = Some(r.raised)],
                          raised |-> r.raised],
                run_pipeline_excel_only(S0, Get(rng)[1], Get(rng)[2]))

\* app.py lines 195-210: with tables in the session, the date filters are
\* normalised before the widgets are drawn
render_filters(S) ==
    IF S.tables_full = None THEN S ELSE normalize_date_filters(S, Get(S.tables_full))

\* app.py lines 240-272: the apply button was clicked with the dates new_min
\* and new_max in the date inputs
apply_filters(S, new_min, new_max) ==
    LET lo == date_bounds_from_tables(Get(S.tables_full))[1]
        hi == date_bounds_from_tables(Get(S.tables_full))[2]
        a == clamp_date(new_min, lo, hi)
        b == clamp_date(new_max, lo, hi)
        dmin == IF a > b THEN b ELSE a
        dmax == IF a > b THEN a ELSE b
        S1 == [S EXCEPT !.filter_dmin = Some(dmin), !.filter_dmax = Some(dmax)]
        view == apply_entity_filters(S1, filter_tables_by_dates(Get(S1.tables_full), dmin, dmax))
    IN  [S1 EXCEPT !.tables_view = Some(view), !.counts_view = Some(recount(view))]

\* the files a user uploads: the test workbook; a workbook with a dated
\* sheet and an undated sheet of another metier; a workbook whose only sheet
\* has no date; bytes that are no workbook
BookTest == [valid |-> TRUE, sheets |-> [k \in 1..MaxSheets |-> TestSheet(k)]]

MecRow == [RawRow(Z1, Work2, FALSE, TRUE, FALSE, FALSE) EXCEPT ![6] = Txt(<<"M", "e", "c">>)]

BookUndated ==
    [valid |-> TRUE,
     sheets |-> <<TestSheet(1),
                  [short |-> FALSE, date |-> NoDateCell, header |-> StdHeader,
                   rows |-> <<MecRow>>]>>]

BookNoDate ==
    [valid |-> TRUE,
     sheets |-> <<[short |-> FALSE, date |-> NoDateCell, header |-> StdHeader,
                   rows |-> <<MecRow>>]>>]

NotAWorkbook == [valid |-> FALSE, sheets |-> <<>>]

Uploads == {BookTest, BookUndated, BookNoDate, NotAWorkbook}

\* what a user types as the last sheet: nothing, a sheet number, a word
EndSheetTexts == {<<>>, <<"x">>} \cup {<<Digits[n + 1]>> : n \in 0..(MaxSheets + 1)}

\* the metiers offered by the multiselect
metiers_all(S) ==
    {Get(S.tables_full).actions_consistent[k].metier :
        k \in 1..Len(Get(S.tables_full).actions_consistent)} \ {<<>>, NA}

InitApp ==
    /\ NoPipeline
    /\ pc = "app"
    /\ parts = <<>>
    /\ payloads = <<>>
    /\ SS = NewSession
    /\ up = None
    /\ script_run = [trigger |-> "start", raised |-> "none"]

AppFrame ==
    /\ UNCHANGED <<wb, start_sheet, end_sheet, sort_ties, pc, i, final_dfs, dates,
                   daily, rolled, transitions, tables, columns, rerun, header, mapped, err>>
    /\ UNCHANGED <<fs, key_vars>>

\* a file is put in the uploader and the script runs
Upload ==
    /\ \E f \in Uploads :
          /\ up' = Some(f)
          /\ SS' = render_filters(upload_handling(SS, Some(f)))
    /\ script_run' = [trigger |-> "upload", raised |-> "none"]
    /\ AppFrame

\* the file is taken out of the uploader and the script runs
RemoveFile ==
    /\ up # None
    /\ up' = None
    /\ SS' = render_filters(upload_handling(SS, None))
    /\ script_run' = [trigger |-> "remove", raised |-> "none"]
    /\ AppFrame

\* app.py lines 103-104: the sheet range is edited and the script runs
EditRange ==
    /\ \E s \in 1..MaxSheets, t \in EndSheetTexts :
          SS' = render_filters([upload_handling(SS, up) EXCEPT !.start_sheet = s,
                                                                !.end_sheet_opt = t])
    /\ script_run' = [trigger |-> "range", raised |-> "none"]
    /\ UNCHANGED up
    /\ AppFrame

\* the run button is clicked and the script runs
ClickRun ==
    /\ \E r \in {run_section(upload_handling(SS, up))} :
          /\ SS' = render_filters(r.S)
          /\ script_run' = [trigger |-> "run", raised |-> r.raised]
    /\ UNCHANGED up
    /\ AppFrame

\* app.py line 224: metiers are selected and the script runs
SelectMetier ==
    /\ SS.tables_full # None
    /\ \E sel \in SUBSET metiers_all(SS) :
          SS' = [render_filters(upload_handling(SS, up)) EXCEPT !.filter_metier = sel]
    /\ script_run' = [trigger |-> "select", raised |-> "none"]
    /\ UNCHANGED up
    /\ AppFrame

\* the apply button is clicked with two dates in the date inputs
ApplyFilters ==
    /\ SS.tables_full # None
    /\ LET S == render_filters(upload_handling(SS, up))
           lo == date_bounds_from_tables(Get(S.tables_full))[1]
           hi == date_bounds_from_tables(Get(S.tables_full))[2]
       IN  \E new_min, new_max \in lo..hi : SS' = apply_filters(S, new_min, new_max)
    /\ script_run' = [trigger |-> "apply", raised |-> "none"]
    /\ UNCHANGED up
    /\ AppFrame

NextApp ==
    \/ Upload
    \/ RemoveFile
    \/ EditRange
    \/ ClickRun
    \/ SelectMetier
    \/ ApplyFilters

SpecApp == InitApp /\ [][NextApp]_vars

(***************************************************************************)
(* Properties of the app session.                                          *)
(***************************************************************************)
\* the session fields that hold the result of the last successful run
RunFields(S) ==
    <<S.tables_full, S.tables_view, S.counts_view,
      S.last_run_file_hash, S.last_run_start_sheet, S.last_run_end_sheet>>

\* the last script run was a click on the run button that ended in an error
RunFailed(r) == r.trigger = "run" /\ r.raised # "none"

\* C23: a run that aborts returns no table, and the script run of a click on
\* the run button that ends in an error (no valid range, bytes that are no
\* workbook, no usable sheet, no date) leaves tables_full, tables_view,
\* counts_view, last_run_file_hash, last_run_start_sheet and
\* last_run_end_sheet as they were before the click.
C23_FailedRunKeepsSession ==
    [][RunFailed(script_run') =>
          /\ RunFields(SS') = RunFields(SS)
          /\ LET S == upload_handling(SS, up)
                 rng == resolve_range_or_warn(S)
             IN  rng # None =>
                     build_week_tables(Get(S.file_bytes), Get(rng)[1], Get(rng)[2],
                                       "kept").tables = EmptyTables]_vars

\* a run on a range without any date fails while the session holds the
\* tables of an earlier run
C23_Witness ==
    /\ pc = "app"
    /\ RunFailed(script_run)
    /\ SS.last_error = Some("NoDate")
    /\ SS.tables_full # None
    /\ SS.last_run_end_sheet # None
    /\ <<SS.start_sheet, SS.start_sheet>>
           # <<Get(SS.last_run_start_sheet), Get(SS.last_run_end_sheet)>>

\* the rows of a table dated from dmin to dmax, in the order of the table
RowsWithin(t, dmin, dmax) ==
    SelectSeq(t, LAMBDA r : r.date_rapport \in dmin..dmax)

\* the view was last written by the date filter alone
DateFilteredOnly ==
    \/ script_run.trigger = "run" /\ script_run.raised = "none"
    \/ script_run.trigger = "apply" /\ SS.filter_metier = {}

\* C24: the tables the date filter returns hold, for every table with rows
\* and a date_rapport column, exactly the rows dated from dmin to dmax
\* inclusive (rows without a date are left out), and every other table whole;
\* a filter application leaves tables_full as it was.
C24_DateFilterNarrows ==
    /\ [](pc = "app" /\ DateFilteredOnly =>
            \A name \in TableNames :
                LET full == Get(SS.tables_full)[name]
                    view == Get(SS.tables_view)[name]
                IN  IF full # <<>> /\ Has(columns_of(Get(SS.tables_full))[name], date_rapport)
                    THEN view = RowsWithin(full, Get(SS.filter_dmin), Get(SS.filter_dmax))
                    ELSE view = full)
    /\ [][script_run'.trigger = "apply" => SS'.tables_full = SS.tables_full]_vars

\* filters applied to tables that hold a row without a date: the view leaves
\* that row out and keeps the dated row
C24_Witness ==
    /\ pc = "app"
    /\ script_run.trigger = "apply"
    /\ SS.filter_metier = {}
    /\ LET full == Get(SS.tables_full).actions_daily
           view == Get(SS.tables_view).actions_daily
       IN  /\ \E k \in Rows(full) : full[k].date_rapport = NaT
           /\ view # <<>>
           /\ Len(view) < Len(full)

\* C28: whenever the session holds tables_full, last_run_file_hash equals
\* uploaded_hash: the tables are those of the file that is uploaded.
C28_TablesBelongToUpload ==
    (pc = "app" /\ SS.tables_full # None) => SS.last_run_file_hash = SS.uploaded_hash

\* a second file was uploaded after a run on a first file and run in turn
C28_Witness ==
    /\ pc = "app"
    /\ SS.tables_full # None
    /\ script_run.trigger = "run"
    /\ SS.uploaded_hash = sha1_bytes(Some(BookUndated))
    /\ SS.last_run_file_hash = sha1_bytes(Some(BookUndated))
    /\ SS.filter_dmin = Some(1)

====
